---- MODULE Spec2Model ----
(***************************************************************************)
(* Model of the obsidian-webhooks server (Go) and of its Obsidian plugin   *)
(* (TypeScript): the ingest -> store -> delivery -> acknowledgement        *)
(* pipeline.                                                               *)
(*                                                                         *)
(* Spec        the store side of the server: ingest, test, ACK and delete  *)
(*             handlers as request processes whose store operations        *)
(*             interleave, the pull endpoint, the reaper and a clock.      *)
(* StreamSpec  ingest and the push streams: backlog seed, broadcaster      *)
(*             registry, steady state.                                     *)
(* DeliverySpec  one event under push delivery, pull, ACK, delete and the   *)
(*             reaper.                                                     *)
(* OverflowSpec  one producer filling the channel of a subscriber that does *)
(*             not read.                                                   *)
(* SeedSpec    the push streams of one subscriber from connect to the      *)
(*             heartbeat, with concurrent ingest requests.                 *)
(* RateSpec    the ingest route with its rate limiter.                     *)
(* ReapSpec    the reaper next to ingest, test and ACK requests.           *)
(* KeySpec     the key table: revoke, activate, deactivate, new pairs,     *)
(*             delete, with ingest requests.                               *)
(* EffectSpec  ingest requests with failing side effects.                  *)
(* MagicSpec   magic-link tokens: login requests and verifications.        *)
(* RevokeSpec  push streams of a key that is deactivated meanwhile.         *)
(* LimiterSpec the limiter map, its requests and its sweep, step by step.   *)
(* TimeoutSpec  push streams past the server's write timeout.              *)
(* ShutdownSpec  main from the shutdown signal to its return, with the      *)
(*             goroutines of the process.                                  *)
(* CryptSpec   one event's payload through Encrypt, the table and Decrypt. *)
(* AckSpec     one call of the plugin's ACKHandler.acknowledgeEvent.        *)
(* SseSpec     the plugin's SSEHandler: connect, disconnect, reconnects.    *)
(* PollSpec    the plugin's PollingHandler: start, stop, the interval.      *)
(* PluginSpec  the plugin's event processing (SSE callback, initial poll,  *)
(*             periodic polls) against the server.                         *)
(* PluginFairSpec  PluginSpec with the fairness the JavaScript event loop  *)
(*             and the polling timer give.                                 *)
(***************************************************************************)
EXTENDS Integers, Sequences, FiniteSets, TLC

VARIABLES
    now,            \* the clock, in hours
    ticks,          \* number of clock advances so far (Tick, Elapse)
    events,         \* table events: id -> row
    webhook_logs,   \* table webhook_logs: row id -> row
    nextEventId,    \* ids handed out by uuid.New()
    webhookReqs,    \* ingest / test requests in flight (after CreateEvent)
    ackReqs,        \* ACK requests in flight (after the ownership check); seen is the
                    \* processed flag of the row GetEventByID returned
    nextAckId,      \* 1 + the number of ACK requests that reached the ownership check
    streams,        \* push streams: stream id -> task state (seed: the result of the
                    \* backlog query; frames: the event frames written to the
                    \* connection; late: the connection's write deadline has
                    \* passed; werr: a write has failed and the server has
                    \* cancelled the request's context)
    nextStream,     \* number of push streams opened so far
    clients,        \* SSEHandler.clients: client key -> registered channel
    okEvents,       \* the {status: ok, event_id} responses of ingest / test requests
    ackDenied,      \* the (client key, event id) ACK requests answered 403
    limiters,       \* keyRateLimiter.limiters: webhook key -> token bucket
    limiterClock,   \* the clock the limiters read, in token periods (600 ms)
    passed,         \* webhook key -> number of requests the limiter has let pass
    keyRateLimiter, \* the limiter map with its entries, the requests inside
                    \* the middleware, and the times requests were let pass
    mainPc,         \* main: serving, stop (signal received), shutdown, exited
    reaper,         \* the goroutine of CleanupService.Start: loop, stopped, none
    sweeper,        \* the goroutine keyRateLimiter.cleanupLoop: loop, stopped
    api_keys,       \* table api_keys: key value -> row
    usage_count,    \* api_keys.usage_count of the webhook keys
    tracked,        \* the events whose webhook_received message PostHog has queued
    magic_links,    \* api_keys.magic_link_* of each owner's webhook rows
    nextToken,      \* the next magic-link token to be generated
    verifyReqs,     \* verifications between their SELECT and their UPDATE
    nextVerify,     \* the next verification to pass its checks
    granted,        \* token -> the verifications that returned the email
    crypt,          \* one event's payload: as ingested, as stored in events.data,
                    \* as returned by a read
    ackCall,        \* plugin: one call of ACKHandler.acknowledgeEvent
    sseClient,      \* plugin: the fields of its SSEHandler, with the EventSource
                    \* objects not yet closed and the timers not yet fired
    poller,         \* plugin: the fields of its PollingHandler, with the interval
                    \* timers not cleared and the poll requests issued
    plugin,         \* plugin connection state
    processedEvents,\* plugin: ObsidianWebhooksPlugin.processedEvents
    tasks,          \* plugin: running pollOnce / onmessage invocations
    sseRead,        \* plugin: frames of its push stream handed to onmessage so far
    vaultWrites,    \* plugin: event id -> number of completed vault writes
    ackFailed,      \* plugin: event ids whose acknowledgeEvent returned false
    serverUp,       \* whether the server answers the plugin's requests
    outages         \* number of times the server stopped answering

limiterVars == <<limiters, limiterClock, passed, keyRateLimiter>>
procVars == <<mainPc, reaper, sweeper>>
\* what the handlers of the pipeline leave as it is
statVars == <<usage_count, tracked>>
magicVars == <<magic_links, nextToken, verifyReqs, nextVerify, granted>>
clientVars == <<ackCall, sseClient, poller>>
restVars == <<procVars, api_keys, statVars, magicVars, crypt, clientVars>>
serverVars == <<now, ticks, events, webhook_logs, nextEventId, webhookReqs,
                ackReqs, nextAckId, streams, nextStream, clients, okEvents, ackDenied,
                limiterVars, restVars>>
pluginVars == <<plugin, processedEvents, tasks, sseRead, vaultWrites, ackFailed, serverUp,
                outages>>
vars == <<serverVars, pluginVars>>

----------------------------------------------------------------------------
(* Bounds of the model *)

MaxEvents  == 11    \* events created in one behaviour
StoreEvents == 2    \* Spec, StreamSpec: events created in one behaviour
MaxTicks   == 1     \* clock advances in one behaviour
MaxStreams == 2     \* push streams opened in one behaviour
MaxAcks    == 2     \* ACK requests that reach the ownership check
MaxTasks   == 2     \* plugin: pollOnce / onmessage invocations running at the same time
MaxOutages == 1     \* times the server stops answering the plugin
DeliveryEvents == 1 \* DeliverySpec: events created in one behaviour
PluginEvents == 1   \* PluginSpec: events created in one behaviour
RateEvents == 1     \* RateSpec: events created in one behaviour
ShutdownEvents == 1 \* ShutdownSpec: events created in one behaviour
TimeoutEvents == 2  \* TimeoutSpec: events created in one behaviour
KeyEvents == 1      \* KeySpec: events created in one behaviour
EffectEvents == 2   \* EffectSpec: events created in one behaviour
RevokeEvents == 2   \* RevokeSpec: events created in one behaviour
MaxReconnects == 11 \* SseSpec: reconnects scheduled without a connection opening
MaxSources == 6     \* SseSpec: EventSource objects created in one behaviour
MaxLen == 3         \* CryptSpec: bytes of a payload
MaxPolls == 9       \* PollSpec: poll requests issued in one behaviour
MaxTokens == 2      \* MagicSpec: magic-link tokens generated in one behaviour
MaxVerifies == 2    \* MagicSpec: verifications that pass their checks
ReapEvents == 2     \* ReapSpec: events created in one behaviour
MaxElapses == 2     \* RateSpec: advances of the limiters' clock
MaxCalls == 22      \* LimiterSpec: requests entering the middleware
MaxInFlight == 2    \* LimiterSpec: requests inside the middleware at a time
MaxEntries == 2     \* LimiterSpec: limiter entries created in one behaviour
MaxWaits == 2       \* LimiterSpec: advances of the limiters' clock
MaxOtherCalls == 1  \* LimiterSpec: requests on the key of the other pair

(* Program constants *)

maxPathLength == 512
maxBodySize   == 10485760
WebhookTTL    == 8760
TestTTL       == 1
ChanCap       == 10
maxRetries    == 3
TrimThreshold == 1000
TrimKeep      == 500
RequestsPerMinute == 100
WriteTimeout  == 30
HeartbeatPeriod == 30
Burst         == 20
EventTTL      == 720
MagicLinkExpiry == 3600
retryDelayMs  == 1000
reconnectDelayMs == 3000
maxReconnectAttempts == 0
ReconnectCapMs == 30000
defaultIntervalMs == 5000
NonceSize == 12
Overhead == 16
KeySize == 32
SecondsPerHour == 3600

----------------------------------------------------------------------------
(* Keys: the api_keys table with two pairs; the client_keys view exposes   *)
(* pair_id as webhook_key_id.                                              *)

WebhookKeys == {"wh_A", "wh_B"}
ClientKeys  == {"ck_A", "ck_B"}

pair_id == [k \in ClientKeys |-> IF k = "ck_A" THEN "wh_A" ELSE "wh_B"]

EventIds == 1..MaxEvents

\* The owners of the two pairs (api_keys.user_email), and the key values of
\* the pair the dashboard creates for an owner.
Owners == {"a@example.com", "b@example.com"}
NewWebhookKey == "wh_C"
NewClientKey == "ck_C"

WebhookKeyValues == WebhookKeys \cup {NewWebhookKey}
ClientKeyValues == ClientKeys \cup {NewClientKey}

\* The api_keys rows of the two pairs: the webhook key's id is the pair id
\* of both rows (a row is identified by its key value here).
InitialKeys ==
    [k \in WebhookKeys \cup ClientKeys |->
        [key_type   |-> IF k \in WebhookKeys THEN "webhook" ELSE "client",
         pair_id    |-> IF k \in WebhookKeys THEN k ELSE pair_id[k],
         user_email |-> IF k \in {"wh_A", "ck_A"} THEN "a@example.com" ELSE "b@example.com",
         is_active  |-> TRUE]]

Null == <<>>
At(t) == <<t>>

Range(q) == {q[i] : i \in DOMAIN q}

----------------------------------------------------------------------------
(* Keys: KeyService and the key middleware *)

\* KeyService.validateKey: SELECT is_active FROM api_keys WHERE key_value = $1
\* AND key_type = $2; no row gives ErrKeyNotFound.
validateKey(keys, keyValue, keyType) ==
    IF keyValue \in DOMAIN keys /\ keys[keyValue].key_type = keyType
    THEN [isValid |-> keys[keyValue].is_active, err |-> "nil"]
    ELSE [isValid |-> FALSE, err |-> "ErrKeyNotFound"]

\* The middleware validateKey: the response it aborts the request with
\* (status and the words of the error body), status 0 when the request goes
\* on to the handler.
KeyResponse(keys, keyValue, keyType) ==
    IF validateKey(keys, keyValue, keyType).err # "nil"
    THEN [status |-> 401, body |-> <<"invalid", keyType, "key">>]
    ELSE IF ~validateKey(keys, keyValue, keyType).isValid
    THEN [status |-> 401, body |-> <<"invalid or inactive", keyType, "key">>]
    ELSE [status |-> 0, body |-> <<>>]

\* The role of the key each key-authorised route takes: POST /webhook,
\* GET /events, POST /test, POST /ack.
Endpoints == {"webhook", "events", "test", "ack"}
EndpointRole(endpoint) == IF endpoint = "webhook" THEN "webhook" ELSE "client"

\* ValidateWebhookKey / ValidateClientKey middleware: 401 for a key that is
\* no active key of the role, 0 when the request goes on.
ValidateWebhookKey(webhookKey) == KeyResponse(api_keys, webhookKey, "webhook").status
ValidateClientKey(clientKey) == KeyResponse(api_keys, clientKey, "client").status

----------------------------------------------------------------------------
(* Event store: EventService *)

\* CreateEvent: a row with processed = false, processed_at NULL,
\* created_at = now and expires_at = now + ttl.
CreateEvent(evs, id, webhookKeyID, ttl, t) ==
    [i \in DOMAIN evs \cup {id} |->
        IF i = id
        THEN [webhook_key_id |-> webhookKeyID,
              processed      |-> FALSE,
              processed_at   |-> Null,
              created_at     |-> t,
              expires_at     |-> t + ttl]
        ELSE evs[i]]

RECURSIVE OrderByCreatedAt_Unordered(_, _)
RECURSIVE OrderByCreatedAt(_, _)

\* Fault variant of OrderByCreatedAt: the query has no ORDER BY, the rows come
\* in any order.
OrderByCreatedAt_Unordered(evs, S) ==
    IF S = {} THEN {<<>>}
    ELSE UNION {{<<i>> \o q : q \in OrderByCreatedAt_Unordered(evs, S \ {i})} : i \in S}

\* The orders a query may return the rows S of evs in under ORDER BY created_at ASC
\* (rows with equal created_at come in either order): a row with the least
\* created_at, then the others in such an order.
OrderByCreatedAt(evs, S) ==
    IF S = {} THEN {<<>>}
    ELSE UNION {{<<i>> \o q : q \in OrderByCreatedAt(evs, S \ {i})} :
                  i \in {x \in S : \A y \in S : evs[x].created_at <= evs[y].created_at}}

\* Fault variant of UnprocessedIds: the query also leaves out the events whose
\* delivery-log row is past pending.
UnprocessedIds_Undelivered(evs, webhookKeyID) ==
    {i \in DOMAIN evs :
        /\ evs[i].webhook_key_id = webhookKeyID
        /\ ~evs[i].processed
        /\ \A l \in DOMAIN webhook_logs :
              webhook_logs[l].event_id = i => webhook_logs[l].delivery_status = "pending"}

\* GetUnprocessedEvents: WHERE webhook_key_id = $1 AND processed = false.
UnprocessedIds(evs, webhookKeyID) ==
    {i \in DOMAIN evs : evs[i].webhook_key_id = webhookKeyID /\ ~evs[i].processed}

GetUnprocessedEvents(evs, webhookKeyID) ==
    OrderByCreatedAt(evs, UnprocessedIds(evs, webhookKeyID))

\* Fault variant of MarkEventAsProcessed: the UPDATE sets the flag alone.
MarkEventAsProcessed_NoTimestamp(evs, id, t) ==
    [i \in DOMAIN evs |->
        IF i = id THEN [evs[i] EXCEPT !.processed = TRUE] ELSE evs[i]]

\* MarkEventAsProcessed: UPDATE events SET processed = true, processed_at = now
\* WHERE id = $2 (no row: the caller gets an error).
MarkEventAsProcessed(evs, id, t) ==
    [i \in DOMAIN evs |->
        IF i = id
        THEN [evs[i] EXCEPT !.processed = TRUE, !.processed_at = At(t)]
        ELSE evs[i]]

\* Deleting event rows; webhook_logs.event_id is ON DELETE CASCADE.
DeleteRows(evs, gone) == [i \in DOMAIN evs \ gone |-> evs[i]]

CascadeLogs(logs, gone) ==
    [l \in {x \in DOMAIN logs : logs[x].event_id \notin gone} |-> logs[l]]

\* Fault variant of ExpiredIds: the comparison is expires_at <= NOW().
ExpiredIds_AtExpiry(evs, t) == {i \in DOMAIN evs : evs[i].expires_at <= t}

\* DeleteExpiredEvents / CleanupService.cleanup: DELETE ... WHERE expires_at < NOW().
ExpiredIds(evs, t) == {i \in DOMAIN evs : evs[i].expires_at < t}

----------------------------------------------------------------------------
(* Delivery log: KeyService, table webhook_logs *)

\* CreateWebhookLog: a row in state pending; the row id is generated.
CreateWebhookLog(logs, eventID, webhookKeyID) ==
    LET l == IF DOMAIN logs = {} THEN 1
             ELSE 1 + CHOOSE m \in DOMAIN logs : \A x \in DOMAIN logs : x <= m
    IN [x \in DOMAIN logs \cup {l} |->
          IF x = l
          THEN [event_id        |-> eventID,
                webhook_key_id  |-> webhookKeyID,
                client_key_id   |-> "",
                delivery_status |-> "pending",
                delivered_at    |-> Null,
                acked_at        |-> Null]
          ELSE logs[x]]

\* Fault variant of UpdateWebhookLogDelivered: the WHERE clause has no
\* delivery_status = 'pending'.
UpdateWebhookLogDelivered_AnyState(logs, eventID, webhookKeyID, clientKeyID, t) ==
    [l \in DOMAIN logs |->
        IF /\ logs[l].event_id = eventID
           /\ logs[l].webhook_key_id = webhookKeyID
        THEN [logs[l] EXCEPT !.delivery_status = "delivered",
                             !.delivered_at = At(t),
                             !.client_key_id = clientKeyID]
        ELSE logs[l]]

\* UpdateWebhookLogDelivered: WHERE event_id = $1 AND webhook_key_id = $2
\* AND delivery_status = 'pending'.
UpdateWebhookLogDelivered(logs, eventID, webhookKeyID, clientKeyID, t) ==
    [l \in DOMAIN logs |->
        IF /\ logs[l].event_id = eventID
           /\ logs[l].webhook_key_id = webhookKeyID
           /\ logs[l].delivery_status = "pending"
        THEN [logs[l] EXCEPT !.delivery_status = "delivered",
                             !.delivered_at = At(t),
                             !.client_key_id = clientKeyID]
        ELSE logs[l]]

\* UpdateWebhookLogAcked: WHERE event_id = $1 AND delivery_status IN
\* ('pending', 'delivered').
UpdateWebhookLogAcked(logs, eventID, t) ==
    [l \in DOMAIN logs |->
        IF /\ logs[l].event_id = eventID
           /\ logs[l].delivery_status \in {"pending", "delivered"}
        THEN [logs[l] EXCEPT !.delivery_status = "acked", !.acked_at = At(t)]
        ELSE logs[l]]

LogsOf(logs, eventID) == {l \in DOMAIN logs : logs[l].event_id = eventID}

----------------------------------------------------------------------------
(* Broadcaster: SSEHandler.clients and the streams' channels *)

SSEEvent(eventID, webhookKeyID) == [EventID |-> eventID, WebhookKeyID |-> webhookKeyID]

\* The client keys BroadcastEvent offers the event to: it ranges over the
\* whole registry.
BroadcastTargets(cl, ev) == {k \in ClientKeys : cl[k] # 0}

\* Fault variant of SendReady: a plain send ch <- event, which waits for room.
SendReady_NoDefault(q) == Len(q) < ChanCap

\* select { case ch <- event: default: } on a channel holding q: the send
\* case is ready when the channel has room, the default case when it has not.
SendReady(q) == Len(q) < ChanCap \/ ~(Len(q) < ChanCap)

\* BroadcastEvent goes on once each of its sends has gone on. (The read lock
\* it holds is free between two steps: addClient and removeClient hold the
\* write lock for one map operation.)
BroadcastReady(strs, cl, ev) ==
    \A k \in BroadcastTargets(cl, ev) : SendReady(strs[cl[k]].chan)

\* Fault variant of BroadcastEvent: the event is queued whatever the channel
\* holds.
BroadcastEvent_Unbounded(strs, cl, ev) ==
    [s \in DOMAIN strs |->
        IF \E k \in BroadcastTargets(cl, ev) : cl[k] = s
        THEN [strs[s] EXCEPT !.chan = Append(@, ev)]
        ELSE strs[s]]

\* BroadcastEvent: a non-blocking send on the channel of every target; a full
\* channel drops the event.
BroadcastEvent(strs, cl, ev) ==
    [s \in DOMAIN strs |->
        IF /\ \E k \in BroadcastTargets(cl, ev) : cl[k] = s
           /\ Len(strs[s].chan) < ChanCap
        THEN [strs[s] EXCEPT !.chan = Append(@, ev)]
        ELSE strs[s]]

----------------------------------------------------------------------------
(* Rate limiter of the ingest route: one rate.Limiter per webhook key with  *)
(* limit rate.Every(time.Minute / RequestsPerMinute) and burst Burst. The   *)
(* limiters' clock counts token periods (time.Minute / RequestsPerMinute),  *)
(* so a bucket gains one token a period.                                    *)

Minute == RequestsPerMinute     \* one minute, in token periods

\* getLimiter for a key with no entry: rate.NewLimiter, a full bucket. (An
\* entry cleanup deleted is created again, full; a bucket left alone for the
\* ten minutes cleanup waits is full as well.)
NewLimiter == [tokens |-> Burst, last |-> 0]

\* Limiter.advance: the tokens of the bucket at time t, at most Burst.
advance(lim, t) ==
    IF lim.tokens + (t - lim.last) > Burst THEN Burst ELSE lim.tokens + (t - lim.last)

\* Fault variant of Allow: the request is let pass while the bucket is not
\* in debt, so the request that finds it empty passes as well.
Allow_OneMore(lim, t) ==
    IF advance(lim, t) - 1 < -1
    THEN [ok |-> FALSE, lim |-> lim]
    ELSE [ok |-> TRUE, lim |-> [tokens |-> advance(lim, t) - 1, last |-> t]]

\* Limiter.Allow at time t: one token is taken when the bucket holds one;
\* otherwise the request is refused and the bucket is left as it was.
Allow(lim, t) ==
    IF advance(lim, t) - 1 < 0
    THEN [ok |-> FALSE, lim |-> lim]
    ELSE [ok |-> TRUE, lim |-> [tokens |-> advance(lim, t) - 1, last |-> t]]

----------------------------------------------------------------------------
(* Initial state *)

NoTask == [src |-> "idle", queue |-> <<>>, pc |-> "idle", attempt |-> 0]

\* A request slot of the rate limiting middleware with no request in it.
NoCall == [pc |-> "idle", key |-> "", entry |-> 0]

\* CleanupService.Start: the goroutine is started when the service is
\* enabled; otherwise Start returns at once.
Start(enabled) == IF enabled THEN "loop" ELSE "none"

\* The state after main has started the background services and the
\* listener, all but the reaper.
InitServing ==
    /\ now = 0
    /\ ticks = 0
    /\ events = <<>>
    /\ webhook_logs = <<>>
    /\ nextEventId = 1
    /\ webhookReqs = {}
    /\ ackReqs = {}
    /\ nextAckId = 1
    /\ streams = <<>>
    /\ nextStream = 1
    /\ clients = [k \in ClientKeys |-> 0]
    /\ okEvents = {}
    /\ ackDenied = {}
    /\ limiters = [k \in WebhookKeys |-> NewLimiter]
    /\ limiterClock = 0
    /\ passed = [k \in WebhookKeys |-> 0]
    /\ keyRateLimiter = [limiters |-> [k \in WebhookKeys |-> 0],
                         entries |-> <<>>,
                         nextEntry |-> 1,
                         calls |-> [i \in 1..MaxInFlight |-> NoCall],
                         started |-> [k \in WebhookKeys |-> 0],
                         waits |-> 0,
                         allowed |-> [k \in WebhookKeys |-> <<>>]]
    /\ plugin = "disconnected"
    /\ processedEvents = <<>>
    /\ tasks = [i \in 1..MaxTasks |-> NoTask]
    /\ sseRead = 0
    /\ vaultWrites = [e \in EventIds |-> 0]
    /\ ackFailed = {}
    /\ serverUp = TRUE
    /\ outages = 0
    /\ mainPc = "serving"
    /\ sweeper = "loop"
    /\ api_keys = InitialKeys
    /\ usage_count = [k \in WebhookKeyValues |-> 0]
    /\ tracked = {}
    /\ magic_links = [o \in Owners |-> [token |-> 0, expires_at |-> 0, used |-> FALSE]]
    /\ nextToken = 1
    /\ verifyReqs = {}
    /\ nextVerify = 1
    /\ granted = [t \in 1..MaxTokens |-> 0]
    /\ crypt = [pc |-> "idle", payload |-> <<>>, data |-> <<>>, encrypted |-> FALSE,
                out |-> <<>>, via |-> ""]
    /\ ackCall = [pc |-> "idle", attempt |-> 0, history |-> <<>>, slept |-> <<>>,
                  result |-> FALSE]
    /\ sseClient = [eventSource |-> "null", source |-> 0, liveSources |-> {},
                    nextSource |-> 1, reconnectTimer |-> FALSE, pendingTimers |-> 0,
                    delay |-> 0, reconnectAttempts |-> 0, isManualDisconnect |-> FALSE,
                    state |-> "disconnected"]
    /\ poller = [polling |-> FALSE, pollingTimer |-> FALSE, intervals |-> <<>>,
                 requests |-> 0, inFlight |-> 0]

\* ENABLE_AUTO_CLEANUP is true by default.
Init == InitServing /\ reaper = Start(TRUE)

----------------------------------------------------------------------------
(* Ingest: WebhookHandler *)

\* A path query parameter is represented by its length and by whether it
\* contains "..".
Path(len, dotdot) == [len |-> len, dotdot |-> dotdot]

\* The ingest requests tried: an admitted one for each webhook key, one
\* request for each rejection, and one whose insert fails.
WebhookInputs ==
    {[key |-> k, path |-> Path(maxPathLength, FALSE), bodyLen |-> maxBodySize,
      stored |-> TRUE] : k \in WebhookKeys}
    \cup {[key |-> "unknown", path |-> Path(1, FALSE), bodyLen |-> 0, stored |-> TRUE],
          [key |-> "wh_A", path |-> Path(0, FALSE), bodyLen |-> 0, stored |-> TRUE],
          [key |-> "wh_A", path |-> Path(maxPathLength + 1, FALSE), bodyLen |-> 0,
           stored |-> TRUE],
          [key |-> "wh_A", path |-> Path(2, TRUE), bodyLen |-> 0, stored |-> TRUE],
          [key |-> "wh_A", path |-> Path(1, FALSE), bodyLen |-> maxBodySize + 1,
           stored |-> TRUE],
          [key |-> "wh_A", path |-> Path(1, FALSE), bodyLen |-> 0, stored |-> FALSE]}

\* The status HandleWebhook answers before CreateEvent, in the order of the
\* route: key middleware (401), then path (400), then body size (413);
\* 0 when the request is admitted. (The rate limiter of the route is in
\* RouteStatus; unsigned requests are accepted, the default.)
WebhookRejection(webhookKey, path, bodyLen) ==
    IF ValidateWebhookKey(webhookKey) # 0 THEN 401
    ELSE IF path.len = 0 THEN 400
    ELSE IF path.len > maxPathLength THEN 400
    ELSE IF path.dotdot THEN 400
    ELSE IF bodyLen > maxBodySize THEN 413
    ELSE 0

\* HandleWebhook up to CreateEvent; a rejected request and a failed insert
\* (stored = FALSE, answered 500) change nothing.
HandleWebhook_Create(webhookKey, path, bodyLen, stored) ==
    /\ UNCHANGED <<now, ticks, restVars, webhook_logs, ackReqs, nextAckId, streams,
                   nextStream, clients, okEvents, ackDenied, pluginVars>>
    /\ IF WebhookRejection(webhookKey, path, bodyLen) # 0 \/ ~stored
       THEN UNCHANGED <<events, nextEventId, webhookReqs>>
       ELSE /\ nextEventId <= MaxEvents
            /\ events' = CreateEvent(events, nextEventId, webhookKey, WebhookTTL, now)
            /\ nextEventId' = nextEventId + 1
            /\ webhookReqs' = webhookReqs \cup
                 {[event_id |-> nextEventId, wk |-> webhookKey,
                   kind |-> "webhook", pc |-> "log"]}

\* HandleWebhook for a request of a producer that stays within the steady
\* rate: the limiter lets it pass and its bucket is full again at the
\* producer's next request.
HandleWebhook(webhookKey, path, bodyLen, stored) ==
    /\ HandleWebhook_Create(webhookKey, path, bodyLen, stored)
    /\ UNCHANGED limiterVars

\* Fault variant of RouteStatus: the limiter runs before the key check, and
\* the handler checks the body size before the path.
RouteStatus_OtherOrder(webhookKey, path, bodyLen) ==
    IF webhookKey \in WebhookKeys /\ ~Allow(limiters[webhookKey], limiterClock).ok THEN 429
    ELSE IF ValidateWebhookKey(webhookKey) # 0 THEN 401
    ELSE IF bodyLen > maxBodySize THEN 413
    ELSE WebhookRejection(webhookKey, path, bodyLen)

\* The status the route POST /webhook/:webhook_key answers a request with
\* before CreateEvent, in the order of its chain: ValidateWebhookKey, the
\* rate limiter (429 when Allow refuses), the signature check (off by
\* default, it lets every request pass), then HandleWebhook's own checks;
\* 0 when the request is admitted.
RouteStatus(webhookKey, path, bodyLen) ==
    IF ValidateWebhookKey(webhookKey) # 0 THEN ValidateWebhookKey(webhookKey)
    ELSE IF ~Allow(limiters[webhookKey], limiterClock).ok THEN 429
    ELSE WebhookRejection(webhookKey, path, bodyLen)

\* The route POST /webhook/:webhook_key: a request the key check or the
\* limiter turns away changes nothing; a request the limiter lets pass
\* takes a token of its key's bucket and goes on to HandleWebhook.
WebhookRoute(webhookKey, path, bodyLen, stored) ==
    IF RouteStatus(webhookKey, path, bodyLen) \in {401, 429}
    THEN UNCHANGED vars
    ELSE /\ limiters' = [limiters EXCEPT
                            ![webhookKey] = Allow(limiters[webhookKey], limiterClock).lim]
         /\ passed' = [passed EXCEPT ![webhookKey] = @ + 1]
         /\ UNCHANGED <<limiterClock, keyRateLimiter>>
         /\ HandleWebhook_Create(webhookKey, path, bodyLen, stored)

\* The limiters' clock advances by d token periods.
Elapse(d) ==
    /\ ticks < MaxElapses
    /\ limiterClock' = limiterClock + d
    /\ ticks' = ticks + 1
    /\ UNCHANGED <<now, limiters, passed, keyRateLimiter, restVars, events, webhook_logs,
                   nextEventId,
                   webhookReqs, ackReqs, nextAckId, streams, nextStream, clients, okEvents,
                   ackDenied, pluginVars>>

\* Fault variant of AfterSideEffects: a failed insert of the log row ends
\* the request with an error.
AfterSideEffects_FailOnLog(logged, counted, queued) ==
    IF logged THEN "broadcast" ELSE "failed"

\* Where HandleWebhook goes on after CreateWebhookLog, UpdateKeyUsageStats
\* and TrackWebhookReceived: their errors are logged (the analytics call
\* returns none) and the handler goes on to the broadcast in every case.
AfterSideEffects(logged, counted, queued) == "broadcast"

\* HandleWebhook from CreateWebhookLog to TrackWebhookReceived. The insert of
\* the log row fails with logged = FALSE, or when the event row is gone and
\* the foreign key of webhook_logs.event_id refuses it; the statistics
\* update fails with counted = FALSE; the analytics message is queued
\* with queued = TRUE (analytics enabled and the key's email found).
HandleWebhook_SideEffects(r, logged, counted, queued) ==
    /\ r \in webhookReqs /\ r.pc = "log"
    /\ webhook_logs' = IF logged /\ r.event_id \in DOMAIN events
                       THEN CreateWebhookLog(webhook_logs, r.event_id, r.wk)
                       ELSE webhook_logs
    /\ usage_count' = IF counted
                      THEN [usage_count EXCEPT ![r.wk] = @ + 1]
                      ELSE usage_count
    /\ tracked' = IF queued THEN tracked \cup {r.event_id} ELSE tracked
    /\ webhookReqs' =
          IF AfterSideEffects(logged, counted, queued) = "broadcast"
          THEN (webhookReqs \ {r}) \cup {[r EXCEPT !.pc = "broadcast"]}
          ELSE webhookReqs \ {r}
    /\ UNCHANGED <<now, ticks, limiterVars, procVars, api_keys, magicVars, crypt, clientVars,
                   events, nextEventId, ackReqs, nextAckId, streams, nextStream, clients,
                   okEvents, ackDenied, pluginVars>>

\* HandleWebhook: CreateWebhookLog, with the usage statistics and the
\* analytics not recorded; a failure of the insert (stored = FALSE) is logged
\* and the request goes on.
HandleWebhook_Log(r, stored) == HandleWebhook_SideEffects(r, stored, FALSE, FALSE)

\* HandleTestWebhook up to CreateEvent: an event for the client key's paired
\* webhook key, with a one hour TTL; the handler writes no delivery-log row.
HandleTestWebhook(clientKey, stored) ==
    /\ UNCHANGED <<now, ticks, limiterVars, restVars, webhook_logs, ackReqs, nextAckId,
                   streams, nextStream, clients, okEvents, ackDenied, pluginVars>>
    /\ IF clientKey \notin ClientKeys \/ ~stored
       THEN UNCHANGED <<events, nextEventId, webhookReqs>>
       ELSE /\ nextEventId <= MaxEvents
            /\ events' = CreateEvent(events, nextEventId, pair_id[clientKey], TestTTL, now)
            /\ nextEventId' = nextEventId + 1
            /\ webhookReqs' = webhookReqs \cup
                 {[event_id |-> nextEventId, wk |-> pair_id[clientKey],
                   kind |-> "test", pc |-> "broadcast"]}

\* HandleWebhook / HandleTestWebhook: BroadcastEvent, then the response
\* {status: ok, event_id}.
HandleWebhook_Broadcast(r) ==
    /\ r \in webhookReqs /\ r.pc = "broadcast"
    /\ BroadcastReady(streams, clients, SSEEvent(r.event_id, r.wk))
    /\ streams' = BroadcastEvent(streams, clients, SSEEvent(r.event_id, r.wk))
    /\ webhookReqs' = webhookReqs \ {r}
    /\ okEvents' = okEvents \cup {[event_id |-> r.event_id, wk |-> r.wk]}
    /\ UNCHANGED <<now, ticks, limiterVars, restVars, events, webhook_logs, nextEventId,
                   ackReqs, nextAckId, nextStream, clients, ackDenied, pluginVars>>

----------------------------------------------------------------------------
(* Acknowledgement: ACKHandler.HandleACK *)

\* Fault variant of AckRejection: no ownership check.
AckRejection_NoOwnership(clientKey, eventID, readOk) ==
    IF clientKey \notin ClientKeys THEN 401
    ELSE IF ~(readOk /\ eventID \in DOMAIN events) THEN 404
    ELSE 0

\* The status HandleACK answers before MarkEventAsProcessed: 401 for a key
\* that is no client key, 404 when GetEventByID finds no event (or fails:
\* readOk = FALSE), 403 when the event belongs to another webhook key;
\* 0 when the request goes on.
AckRejection(clientKey, eventID, readOk) ==
    IF clientKey \notin ClientKeys THEN 401
    ELSE IF ~(readOk /\ eventID \in DOMAIN events) THEN 404
    ELSE IF events[eventID].webhook_key_id # pair_id[clientKey] THEN 403
    ELSE 0

\* HandleACK up to the ownership check.
HandleACK(clientKey, eventID, readOk) ==
    /\ UNCHANGED <<now, ticks, limiterVars, restVars, events, webhook_logs, nextEventId,
                   webhookReqs, streams, nextStream, clients, okEvents, pluginVars>>
    /\ IF AckRejection(clientKey, eventID, readOk) \in {401, 404}
       THEN UNCHANGED <<ackReqs, nextAckId, ackDenied>>
       ELSE /\ nextAckId <= MaxAcks
            /\ nextAckId' = nextAckId + 1
            /\ IF AckRejection(clientKey, eventID, readOk) = 403
               THEN /\ ackDenied' = ackDenied \cup {<<clientKey, eventID>>}
                    /\ UNCHANGED ackReqs
               ELSE /\ ackReqs' = ackReqs \cup
                         {[n |-> nextAckId, ck |-> clientKey, event_id |-> eventID,
                           seen |-> events[eventID].processed, pc |-> "mark"]}
                    /\ UNCHANGED ackDenied

\* HandleACK: MarkEventAsProcessed. On an error (the update failed:
\* updated = FALSE, or no row was affected) the handler answers
\* {status: acknowledged} and returns.
HandleACK_Mark(r, updated) ==
    /\ r \in ackReqs /\ r.pc = "mark"
    /\ IF updated /\ r.event_id \in DOMAIN events
       THEN /\ events' = MarkEventAsProcessed(events, r.event_id, now)
            /\ ackReqs' = (ackReqs \ {r}) \cup {[r EXCEPT !.pc = "log"]}
       ELSE /\ UNCHANGED events
            /\ ackReqs' = ackReqs \ {r}
    /\ UNCHANGED <<now, ticks, limiterVars, restVars, webhook_logs, nextEventId,
                   webhookReqs, nextAckId, streams, nextStream, clients, okEvents,
                   ackDenied, pluginVars>>

\* HandleACK: UpdateWebhookLogAcked (its error is dropped), then the response
\* {status: acknowledged}.
HandleACK_Log(r, updated) ==
    /\ r \in ackReqs /\ r.pc = "log"
    /\ webhook_logs' = IF updated
                       THEN UpdateWebhookLogAcked(webhook_logs, r.event_id, now)
                       ELSE webhook_logs
    /\ ackReqs' = ackReqs \ {r}
    /\ UNCHANGED <<now, ticks, limiterVars, restVars, events, nextEventId, webhookReqs,
                   nextAckId, streams, nextStream, clients, okEvents, ackDenied, pluginVars>>

----------------------------------------------------------------------------
(* Delivery: SSEHandler.HandleSSE *)

\* handlePolling: the bodies a pull on clientKey may be answered with now: the
\* unprocessed events of the paired webhook key, created_at ascending.
PollResponses(clientKey) == GetUnprocessedEvents(events, pair_id[clientKey])

\* handlePolling reads and changes nothing.
handlePolling(clientKey) ==
    /\ clientKey \in ClientKeys
    /\ PollResponses(clientKey) # {}
    /\ UNCHANGED vars

\* handleSSEStream up to the backlog query: the ": connected" comment, then
\* GetUnprocessedEvents.
handleSSEStream(clientKey) ==
    /\ clientKey \in ClientKeys
    /\ nextStream <= MaxStreams
    /\ \E q \in GetUnprocessedEvents(events, pair_id[clientKey]) :
          streams' = [s \in DOMAIN streams \cup {nextStream} |->
                        IF s = nextStream
                        THEN [key     |-> clientKey,
                              pc      |-> "seed",
                              backlog |-> [i \in DOMAIN q |->
                                             SSEEvent(q[i], events[q[i]].webhook_key_id)],
                              chan    |-> <<>>,
                              frames  |-> <<>>,
                              seed    |-> q,
                              beat    |-> -1,
                              late    |-> FALSE,
                              werr    |-> FALSE]
                        ELSE streams[s]]
    /\ nextStream' = nextStream + 1
    /\ UNCHANGED <<now, ticks, limiterVars, restVars, events, webhook_logs, nextEventId,
                   webhookReqs, ackReqs, nextAckId, clients, okEvents, ackDenied, pluginVars>>

\* One iteration of the backlog loop: the frame is written, then
\* UpdateWebhookLogDelivered.
SSE_SeedNext(s) ==
    /\ s \in DOMAIN streams
    /\ streams[s].pc = "seed"
    /\ streams[s].backlog # <<>>
    /\ LET ev == Head(streams[s].backlog) IN
         /\ streams' = [streams EXCEPT ![s].backlog = Tail(@),
                                       ![s].frames = Append(@, ev)]
         /\ webhook_logs' = UpdateWebhookLogDelivered(webhook_logs, ev.EventID,
                                                      ev.WebhookKeyID, streams[s].key, now)
    /\ UNCHANGED <<now, ticks, limiterVars, restVars, events, nextEventId, webhookReqs,
                   ackReqs, nextAckId, nextStream, clients, okEvents, ackDenied, pluginVars>>

\* addClient: after the backlog loop the stream's channel is registered under
\* its client key (replacing any channel registered there).
addClient(s) ==
    /\ s \in DOMAIN streams
    /\ streams[s].pc = "seed"
    /\ streams[s].backlog = <<>>
    /\ clients' = [clients EXCEPT ![streams[s].key] = s]
    /\ streams' = [streams EXCEPT ![s].pc = "steady"]
    /\ UNCHANGED <<now, ticks, limiterVars, restVars, events, webhook_logs, nextEventId,
                   webhookReqs, ackReqs, nextAckId, nextStream, okEvents, ackDenied,
                   pluginVars>>

\* The write deadline of the stream's connection passes: the server set it
\* to WriteTimeout seconds after it had read the request, and the handler
\* does not move it. (The backlog loop is over by then.)
WriteDeadline(s) ==
    /\ s \in DOMAIN streams
    /\ streams[s].pc = "steady"
    /\ ~streams[s].late
    /\ streams' = [streams EXCEPT ![s].late = TRUE]
    /\ UNCHANGED <<now, ticks, limiterVars, restVars, events, webhook_logs, nextEventId,
                   webhookReqs, ackReqs, nextAckId, nextStream, clients, okEvents,
                   ackDenied, pluginVars>>

\* Steady state, case rawEvent := <-eventChan: UpdateWebhookLogDelivered with
\* the event's ids and this stream's client key (it fails once the request's
\* context is cancelled), then the frame. A write after the deadline fails,
\* the handler drops the error, and the server cancels the request's context.
SSE_Receive(s) ==
    /\ s \in DOMAIN streams
    /\ streams[s].pc = "steady"
    /\ streams[s].chan # <<>>
    /\ LET ev == Head(streams[s].chan) IN
         /\ streams' = [streams EXCEPT ![s].chan = Tail(@),
                                       ![s].frames = IF streams[s].late
                                                     THEN @ ELSE Append(@, ev),
                                       ![s].werr = @ \/ streams[s].late]
         /\ webhook_logs' = IF streams[s].werr
                            THEN webhook_logs
                            ELSE UpdateWebhookLogDelivered(webhook_logs, ev.EventID,
                                     ev.WebhookKeyID, streams[s].key, now)
    /\ UNCHANGED <<now, ticks, limiterVars, restVars, events, nextEventId, webhookReqs,
                   ackReqs, nextAckId, nextStream, clients, okEvents, ackDenied, pluginVars>>

\* Steady state, case <-ticker.C: the heartbeat comment. beat keeps the number
\* of frames written before the first heartbeat. A write after the deadline
\* fails as in SSE_Receive.
SSE_Heartbeat(s) ==
    /\ s \in DOMAIN streams
    /\ streams[s].pc = "steady"
    /\ streams' = [streams EXCEPT ![s].beat = IF @ = -1 THEN Len(streams[s].frames) ELSE @,
                                  ![s].werr = @ \/ streams[s].late]
    /\ UNCHANGED <<now, ticks, limiterVars, restVars, events, webhook_logs, nextEventId,
                   webhookReqs, ackReqs, nextAckId, nextStream, clients, okEvents,
                   ackDenied, pluginVars>>

\* Steady state, case <-ctx.Done(): return; the deferred removeClient deletes
\* the registry entry of the stream's client key.
removeClient(s) ==
    /\ s \in DOMAIN streams
    /\ streams[s].pc = "steady"
    /\ clients' = [clients EXCEPT ![streams[s].key] = 0]
    /\ streams' = [streams EXCEPT ![s].pc = "done"]
    /\ UNCHANGED <<now, ticks, limiterVars, restVars, events, webhook_logs, nextEventId,
                   webhookReqs, ackReqs, nextAckId, nextStream, okEvents, ackDenied,
                   pluginVars>>

----------------------------------------------------------------------------
(* Reaper, dashboard delete, clock *)

\* CleanupService.cleanup: DELETE FROM events WHERE expires_at < NOW().
cleanup ==
    /\ reaper = "loop"
    /\ ExpiredIds(events, now) # {}
    /\ events' = DeleteRows(events, ExpiredIds(events, now))
    /\ webhook_logs' = CascadeLogs(webhook_logs, ExpiredIds(events, now))
    /\ UNCHANGED <<now, ticks, limiterVars, restVars, nextEventId, webhookReqs, ackReqs,
                   nextAckId, streams, nextStream, clients, okEvents, ackDenied, pluginVars>>

\* DashboardHandler.HandleDeleteEvent: the owner's client key deletes one event.
HandleDeleteEvent(clientKey, eventID) ==
    /\ clientKey \in ClientKeys
    /\ eventID \in DOMAIN events
    /\ events[eventID].webhook_key_id = pair_id[clientKey]
    /\ events' = DeleteRows(events, {eventID})
    /\ webhook_logs' = CascadeLogs(webhook_logs, {eventID})
    /\ UNCHANGED <<now, ticks, limiterVars, restVars, nextEventId, webhookReqs, ackReqs,
                   nextAckId, streams, nextStream, clients, okEvents, ackDenied, pluginVars>>

\* The clock advances by one hour once an event has been created in the
\* present hour: the events of a behaviour have distinct created_at where
\* their requests are an hour apart.
NextHour ==
    /\ \E e \in DOMAIN events : events[e].created_at = now
    /\ now' = now + 1
    /\ UNCHANGED <<ticks, limiterVars, restVars, events, webhook_logs, nextEventId,
                   webhookReqs, ackReqs, nextAckId, streams, nextStream, clients, okEvents,
                   ackDenied, pluginVars>>

\* The clock advances past the ingest TTL: every event created before the
\* step has expired after it.
TickSteps == {WebhookTTL + 1}

Tick(d) ==
    /\ ticks < MaxTicks
    /\ now' = now + d
    /\ ticks' = ticks + 1
    /\ UNCHANGED <<limiterVars, restVars, events, webhook_logs, nextEventId, webhookReqs,
                   ackReqs, nextAckId, streams, nextStream, clients, okEvents, ackDenied,
                   pluginVars>>

----------------------------------------------------------------------------
(* Spec: the store side of the server. Ingest, test, ACK, pull, reaper,     *)
(* dashboard delete and the clock; no push stream is open.                  *)

\* The requests tried: every admitted request, one request for each
\* rejection, and one request whose first store operation fails.
TestInputs ==
    {[key |-> k, stored |-> TRUE] : k \in ClientKeys}
    \cup {[key |-> "unknown", stored |-> TRUE], [key |-> "ck_A", stored |-> FALSE]}

AckInputs ==
    {[key |-> k, id |-> e, readOk |-> TRUE] : k \in ClientKeys, e \in EventIds}
    \cup {[key |-> "unknown", id |-> 1, readOk |-> TRUE],
          [key |-> "ck_A", id |-> 1, readOk |-> FALSE]}

Next ==
    \/ /\ nextEventId <= StoreEvents
       /\ \E i \in WebhookInputs : HandleWebhook(i.key, i.path, i.bodyLen, i.stored)
    \/ \E r \in webhookReqs, ok \in BOOLEAN : HandleWebhook_Log(r, ok)
    \/ /\ nextEventId <= StoreEvents
       /\ \E i \in TestInputs : HandleTestWebhook(i.key, i.stored)
    \/ \E r \in webhookReqs : HandleWebhook_Broadcast(r)
    \/ \E i \in AckInputs : HandleACK(i.key, i.id, i.readOk)
    \/ \E r \in ackReqs, ok \in BOOLEAN : HandleACK_Mark(r, ok)
    \/ \E r \in ackReqs, ok \in BOOLEAN : HandleACK_Log(r, ok)
    \/ \E k \in ClientKeys : handlePolling(k)
    \/ cleanup
    \/ \E k \in ClientKeys, e \in EventIds : HandleDeleteEvent(k, e)
    \/ \E d \in TickSteps : Tick(d)

Spec == Init /\ [][Next]_vars

----------------------------------------------------------------------------
(* StreamSpec: the delivery side of the server. Ingest and push streams.    *)

StreamNext ==
    \/ /\ nextEventId <= StoreEvents
       /\ \E k \in WebhookKeys : HandleWebhook(k, Path(1, FALSE), 0, TRUE)
    \/ \E r \in webhookReqs : HandleWebhook_Log(r, TRUE)
    \/ \E r \in webhookReqs : HandleWebhook_Broadcast(r)
    \/ \E k \in ClientKeys : handleSSEStream(k)
    \/ \E s \in 1..MaxStreams : SSE_SeedNext(s)
    \/ \E s \in 1..MaxStreams : addClient(s)
    \/ \E s \in 1..MaxStreams : SSE_Receive(s)
    \/ \E s \in 1..MaxStreams : removeClient(s)

StreamSpec == Init /\ [][StreamNext]_vars

----------------------------------------------------------------------------
(* SeedSpec: the push streams of one subscriber from connect to the         *)
(* heartbeat, while its producer's requests run concurrently, the clock     *)
(* advancing between them.                                                  *)

SeedNext ==
    \/ /\ nextEventId <= StoreEvents
       /\ HandleWebhook("wh_A", Path(1, FALSE), 0, TRUE)
    \/ \E r \in webhookReqs : HandleWebhook_Log(r, TRUE)
    \/ \E r \in webhookReqs : HandleWebhook_Broadcast(r)
    \/ handleSSEStream("ck_A")
    \/ \E s \in 1..MaxStreams : SSE_SeedNext(s)
    \/ \E s \in 1..MaxStreams : addClient(s)
    \/ \E s \in 1..MaxStreams : SSE_Receive(s)
    \/ \E s \in 1..MaxStreams : SSE_Heartbeat(s)
    \/ \E s \in 1..MaxStreams : removeClient(s)
    \/ NextHour

SeedSpec == Init /\ [][SeedNext]_vars

----------------------------------------------------------------------------
(* DeliverySpec: one event under push delivery, pull, ACK, delete and the    *)
(* reaper.                                                                  *)

DeliveryNext ==
    \/ nextEventId <= DeliveryEvents
         /\ \E k \in WebhookKeys : HandleWebhook(k, Path(1, FALSE), 0, TRUE)
    \/ \E r \in webhookReqs : HandleWebhook_Log(r, TRUE)
    \/ \E r \in webhookReqs : HandleWebhook_Broadcast(r)
    \/ \E k \in ClientKeys : handleSSEStream(k)
    \/ \E s \in 1..MaxStreams : SSE_SeedNext(s)
    \/ \E s \in 1..MaxStreams : addClient(s)
    \/ \E s \in 1..MaxStreams : SSE_Receive(s)
    \/ \E s \in 1..MaxStreams : removeClient(s)
    \/ \E k \in ClientKeys : handlePolling(k)
    \/ \E k \in ClientKeys, e \in EventIds : HandleACK(k, e, TRUE)
    \/ \E r \in ackReqs : HandleACK_Mark(r, TRUE)
    \/ \E r \in ackReqs : HandleACK_Log(r, TRUE)
    \/ \E k \in ClientKeys, e \in EventIds : HandleDeleteEvent(k, e)
    \/ cleanup
    \/ \E d \in TickSteps : Tick(d)

DeliverySpec == Init /\ [][DeliveryNext]_vars

----------------------------------------------------------------------------
(* Key management: dashboard (owner), admin (operator), KeyService *)

\* what the key operations leave as it is, the tables of events and logs
\* apart
keyUnchanged == <<now, ticks, nextEventId, webhookReqs, ackReqs, nextAckId, streams,
                  nextStream, clients, okEvents, ackDenied, limiterVars, procVars,
                  statVars, magicVars, crypt, clientVars, pluginVars>>

\* Fault variant of DeactivateKeyPairByID: the UPDATE is not scoped to the
\* owner.
DeactivateKeyPairByID_AnyOwner(keys, pairID, userEmail) ==
    [k \in DOMAIN keys |->
        IF keys[k].pair_id = pairID /\ keys[k].is_active
        THEN [keys[k] EXCEPT !.is_active = FALSE]
        ELSE keys[k]]

\* DeactivateKeyPairByID: UPDATE api_keys SET is_active = false WHERE
\* pair_id = $1 AND user_email = $2 AND is_active = true, one statement.
DeactivateKeyPairByID(keys, pairID, userEmail) ==
    [k \in DOMAIN keys |->
        IF keys[k].pair_id = pairID /\ keys[k].user_email = userEmail /\ keys[k].is_active
        THEN [keys[k] EXCEPT !.is_active = FALSE]
        ELSE keys[k]]

\* HandleRevokeKeys: the owner of the session (email) revokes a pair; with
\* no row affected the answer is 500.
HandleRevokeKeys(pairID, email) ==
    /\ api_keys' = DeactivateKeyPairByID(api_keys, pairID, email)
    /\ UNCHANGED <<events, webhook_logs, keyUnchanged>>

\* updateKeyStatus: UPDATE api_keys SET is_active = $1 WHERE key_value = $2
\* AND key_type = $3; no row affected is an error.
KeyFound(keys, keyValue, keyType) ==
    keyValue \in DOMAIN keys /\ keys[keyValue].key_type = keyType

updateKeyStatus(keys, keyValue, keyType, isActive) ==
    [k \in DOMAIN keys |->
        IF k = keyValue /\ keys[k].key_type = keyType
        THEN [keys[k] EXCEPT !.is_active = isActive]
        ELSE keys[k]]

\* handleKeyOperation: the webhook key when given, then the client key when
\* given; the first error ends the request with 500.
handleKeyOperation(webhookKey, clientKey, isActive) ==
    LET first == IF webhookKey # ""
                 THEN updateKeyStatus(api_keys, webhookKey, "webhook", isActive)
                 ELSE api_keys
        failed == webhookKey # "" /\ ~KeyFound(api_keys, webhookKey, "webhook")
    IN /\ api_keys' = IF failed \/ clientKey = ""
                      THEN first
                      ELSE updateKeyStatus(first, clientKey, "client", isActive)
       /\ UNCHANGED <<events, webhook_logs, keyUnchanged>>

\* HandleActivateLicense / HandleDeactivateLicense: the operator's requests.
HandleActivateLicense(webhookKey, clientKey) ==
    handleKeyOperation(webhookKey, clientKey, TRUE)

HandleDeactivateLicense(webhookKey, clientKey) ==
    handleKeyOperation(webhookKey, clientKey, FALSE)

\* HandleCreateNewKeyPair: for an owner with a webhook key row,
\* CreateUserKeyPair inserts a new active pair in one transaction (old keys
\* stay as they are).
HandleCreateNewKeyPair(email) ==
    /\ \E k \in DOMAIN api_keys :
          api_keys[k].user_email = email /\ api_keys[k].key_type = "webhook"
    /\ NewWebhookKey \notin DOMAIN api_keys
    /\ NewClientKey \notin DOMAIN api_keys
    /\ api_keys' =
          [k \in DOMAIN api_keys \cup {NewWebhookKey, NewClientKey} |->
              IF k \in {NewWebhookKey, NewClientKey}
              THEN [key_type   |-> IF k = NewWebhookKey THEN "webhook" ELSE "client",
                    pair_id    |-> NewWebhookKey,
                    user_email |-> email,
                    is_active  |-> TRUE]
              ELSE api_keys[k]]
    /\ UNCHANGED <<events, webhook_logs, keyUnchanged>>

\* KeyService.DeleteKeyPair: DELETE FROM api_keys WHERE pair_id = (the pair
\* id of the webhook key). events.webhook_key_id and webhook_logs.event_id,
\* webhook_key_id are ON DELETE CASCADE, webhook_logs.client_key_id is ON
\* DELETE SET NULL.
DeleteKeyPair(webhookKeyValue) ==
    /\ KeyFound(api_keys, webhookKeyValue, "webhook")
    /\ LET gone == {k \in DOMAIN api_keys :
                      api_keys[k].pair_id = api_keys[webhookKeyValue].pair_id}
           goneEvents == {e \in DOMAIN events : events[e].webhook_key_id \in gone}
       IN /\ api_keys' = [k \in DOMAIN api_keys \ gone |-> api_keys[k]]
          /\ events' = DeleteRows(events, goneEvents)
          /\ webhook_logs' =
                [l \in {x \in DOMAIN webhook_logs :
                           /\ webhook_logs[x].event_id \notin goneEvents
                           /\ webhook_logs[x].webhook_key_id \notin gone} |->
                    IF webhook_logs[l].client_key_id \in gone
                    THEN [webhook_logs[l] EXCEPT !.client_key_id = ""]
                    ELSE webhook_logs[l]]
    /\ UNCHANGED keyUnchanged

----------------------------------------------------------------------------
(* KeySpec: the key table under the owners' and the operator's requests,    *)
(* with ingest requests on every webhook key.                               *)

\* The keys presented to the key-authorised routes.
KeyProbes == WebhookKeyValues \cup ClientKeyValues \cup {"unknown"}

KeyNext ==
    \/ /\ nextEventId <= KeyEvents
       /\ \E k \in WebhookKeyValues : HandleWebhook(k, Path(1, FALSE), 0, TRUE)
    \/ \E r \in webhookReqs : HandleWebhook_Log(r, TRUE)
    \/ \E r \in webhookReqs : HandleWebhook_Broadcast(r)
    \/ \E p \in WebhookKeyValues, o \in Owners : HandleRevokeKeys(p, o)
    \/ \E wk \in WebhookKeyValues \cup {""}, ck \in ClientKeyValues \cup {""} :
          HandleActivateLicense(wk, ck)
    \/ \E wk \in WebhookKeyValues \cup {""}, ck \in ClientKeyValues \cup {""} :
          HandleDeactivateLicense(wk, ck)
    \/ \E o \in Owners : HandleCreateNewKeyPair(o)
    \/ \E wk \in WebhookKeyValues : DeleteKeyPair(wk)

KeySpec == Init /\ [][KeyNext]_vars

----------------------------------------------------------------------------
(* LimiterSpec: keyRateLimiter step by step. getLimiter reads the map      *)
(* under the read lock, releases it, and takes the write lock to stamp the  *)
(* entry or to create one; the middleware then calls Allow on the limiter   *)
(* it was handed; cleanup runs on the ticker of cleanupLoop under the write *)
(* lock. keyRateLimiter.limiters maps a key to the id of its entry (0: no   *)
(* entry); an entry deleted from the map lives on while a request holds it. *)

cleanupInterval == 5 * Minute   \* time.NewTicker(5 * time.Minute)
staleAfter == 10 * Minute       \* cutoff := time.Now().Add(-10 * time.Minute)

limiterUnchanged == <<now, ticks, limiters, passed, restVars, events, webhook_logs,
                      nextEventId, webhookReqs, ackReqs, nextAckId, streams, nextStream,
                      clients, okEvents, ackDenied, pluginVars>>

\* The entries the map or a request refers to; the others are garbage.
Referenced(k) ==
    ({k.limiters[key] : key \in WebhookKeys}
       \cup {k.calls[i].entry : i \in 1..MaxInFlight}) \ {0}

Collect(k) ==
    [k EXCEPT !.entries = [e \in DOMAIN k.entries \cap Referenced(k) |-> k.entries[e]]]

\* getLimiter, RLock .. RUnlock: entry, ok := k.limiters[key].
getLimiter_Read(k, i, key) ==
    [k EXCEPT !.started[key] = @ + 1,
              !.calls[i] = [pc |-> IF k.limiters[key] # 0 THEN "found" ELSE "miss",
                            key |-> key, entry |-> k.limiters[key]]]

\* getLimiter, ok: Lock; entry.lastUsed = time.Now(); Unlock; the limiter of
\* the entry read before is returned.
getLimiter_Stamp(k, i, t) ==
    [k EXCEPT !.entries[k.calls[i].entry].lastUsed = t,
              !.calls[i].pc = "allow"]

\* getLimiter, not ok: Lock; the map is read again; an entry found is stamped
\* and returned, otherwise rate.NewLimiter(limit, burst) is stored.
getLimiter_Create(k, i, t) ==
    LET key == k.calls[i].key IN
    IF k.limiters[key] # 0
    THEN [k EXCEPT !.entries[k.limiters[key]].lastUsed = t,
                   !.calls[i] = [pc |-> "allow", key |-> key, entry |-> k.limiters[key]]]
    ELSE [k EXCEPT !.limiters[key] = k.nextEntry,
                   !.nextEntry = @ + 1,
                   !.entries = [e \in DOMAIN k.entries \cup {k.nextEntry} |->
                                  IF e = k.nextEntry
                                  THEN [limiter |-> NewLimiter, lastUsed |-> t]
                                  ELSE k.entries[e]],
                   !.calls[i] = [pc |-> "allow", key |-> key, entry |-> k.nextEntry]]

\* The middleware: l.Allow(); 429 and Abort, or c.Next().
Middleware_Allow(k, i, t) ==
    LET e == k.calls[i].entry
        r == Allow(k.entries[e].limiter, t)
    IN Collect([k EXCEPT !.entries[e].limiter = r.lim,
                         !.allowed[k.calls[i].key] = IF r.ok THEN Append(@, t) ELSE @,
                         !.calls[i] = NoCall])

\* cleanup: every entry with lastUsed.Before(cutoff) is deleted from the map.
keyRateLimiter_cleanupBody(k, t) ==
    Collect([k EXCEPT !.limiters =
                [key \in WebhookKeys |->
                    IF /\ k.limiters[key] # 0
                       /\ k.entries[k.limiters[key]].lastUsed < t - staleAfter
                    THEN 0 ELSE k.limiters[key]]])

\* A request enters the middleware with c.Param("webhook_key") = key.
RateLimit_getLimiter(i, key) ==
    /\ keyRateLimiter.started[key] < (IF key = "wh_A" THEN MaxCalls ELSE MaxOtherCalls)
    /\ keyRateLimiter.calls[i].pc = "idle"
    /\ \A j \in 1..(i - 1) : keyRateLimiter.calls[j].pc # "idle"
    /\ keyRateLimiter' = getLimiter_Read(keyRateLimiter, i, key)
    /\ UNCHANGED <<limiterClock, limiterUnchanged>>

RateLimit_Stamp(i) ==
    /\ keyRateLimiter.calls[i].pc = "found"
    /\ keyRateLimiter' = getLimiter_Stamp(keyRateLimiter, i, limiterClock)
    /\ UNCHANGED <<limiterClock, limiterUnchanged>>

RateLimit_Create(i) ==
    /\ keyRateLimiter.calls[i].pc = "miss"
    /\ keyRateLimiter.limiters[keyRateLimiter.calls[i].key] = 0
          => keyRateLimiter.nextEntry <= MaxEntries
    /\ keyRateLimiter' = getLimiter_Create(keyRateLimiter, i, limiterClock)
    /\ UNCHANGED <<limiterClock, limiterUnchanged>>

RateLimit_Allow(i) ==
    /\ keyRateLimiter.calls[i].pc = "allow"
    /\ keyRateLimiter' = Middleware_Allow(keyRateLimiter, i, limiterClock)
    /\ UNCHANGED <<limiterClock, limiterUnchanged>>

\* cleanupLoop, case <-ticker.C: k.cleanup().
keyRateLimiter_cleanup ==
    /\ sweeper = "loop"
    /\ limiterClock > 0
    /\ limiterClock % cleanupInterval = 0
    /\ keyRateLimiter' = keyRateLimiter_cleanupBody(keyRateLimiter, limiterClock)
    /\ UNCHANGED <<limiterClock, limiterUnchanged>>

\* The limiters' clock advances by d token periods: by one period, or from
\* the start to the third tick of the sweep's ticker (the first two ticks
\* find no entry older than the cutoff).
RateLimit_Wait(d) ==
    /\ keyRateLimiter.waits < MaxWaits
    /\ d > 1 => limiterClock = 0
    /\ limiterClock' = limiterClock + d
    /\ keyRateLimiter' = [keyRateLimiter EXCEPT !.waits = @ + 1]
    /\ UNCHANGED limiterUnchanged

WaitSteps == {1, staleAfter + cleanupInterval}

LimiterNext ==
    \/ \E i \in 1..MaxInFlight : \E key \in WebhookKeys : RateLimit_getLimiter(i, key)
    \/ \E i \in 1..MaxInFlight : RateLimit_Stamp(i)
    \/ \E i \in 1..MaxInFlight : RateLimit_Create(i)
    \/ \E i \in 1..MaxInFlight : RateLimit_Allow(i)
    \/ keyRateLimiter_cleanup
    \/ \E d \in WaitSteps : RateLimit_Wait(d)

LimiterSpec == Init /\ [][LimiterNext]_vars

----------------------------------------------------------------------------
(* RevokeSpec: the push streams of ck_A while the operator deactivates and  *)
(* reactivates the key, its producer's key staying active.                  *)

\* GET /events/:client_key: ValidateClientKey in front of HandleSSE.
SSERoute(clientKey) ==
    /\ ValidateClientKey(clientKey) = 0
    /\ handleSSEStream(clientKey)

RevokeNext ==
    \/ /\ nextEventId <= RevokeEvents
       /\ HandleWebhook("wh_A", Path(1, FALSE), 0, TRUE)
    \/ \E r \in webhookReqs : HandleWebhook_Log(r, TRUE)
    \/ \E r \in webhookReqs : HandleWebhook_Broadcast(r)
    \/ SSERoute("ck_A")
    \/ \E s \in 1..MaxStreams : SSE_SeedNext(s)
    \/ \E s \in 1..MaxStreams : addClient(s)
    \/ \E s \in 1..MaxStreams : SSE_Receive(s)
    \/ \E s \in 1..MaxStreams : removeClient(s)
    \/ HandleDeactivateLicense("", "ck_A")
    \/ HandleActivateLicense("", "ck_A")

RevokeSpec == Init /\ [][RevokeNext]_vars

----------------------------------------------------------------------------
(* Shutdown: main from the signal to its return.                            *)

pipelineVars == <<now, ticks, events, webhook_logs, nextEventId, webhookReqs, ackReqs,
                  nextAckId, streams, nextStream, clients, okEvents, ackDenied,
                  limiterVars, api_keys, statVars, magicVars, crypt, clientVars, pluginVars>>

\* sig := <-sigChan: SIGTERM, SIGINT or SIGUSR2 arrives.
Signal ==
    /\ mainPc = "serving"
    /\ mainPc' = "stop"
    /\ UNCHANGED <<reaper, sweeper, pipelineVars>>

\* cleanupService.Stop: cs.done <- true on an unbuffered channel, received by
\* the select of the reaper's goroutine, which returns. With no goroutine
\* there is no receiver and the send never goes on.
CleanupService_Stop ==
    /\ mainPc = "stop"
    /\ reaper = "loop"
    /\ reaper' = "stopped"
    /\ mainPc' = "shutdown"
    /\ UNCHANGED <<sweeper, pipelineVars>>

\* srv.Shutdown and the return of main. Shutdown closes the listeners and
\* returns when no connection is active or, with a push stream still open,
\* when its context expires after 30 s; it cancels no request context. The
\* ingest and ACK requests in flight have been answered by then (they take
\* far less than the 30 s). main returns and the process ends with every
\* goroutine still running: nothing calls keyRateLimiter.Stop.
Shutdown ==
    /\ mainPc = "shutdown"
    /\ webhookReqs = {}
    /\ ackReqs = {}
    /\ mainPc' = "exited"
    /\ UNCHANGED <<reaper, sweeper, pipelineVars>>

\* The listeners accept connections until Shutdown closes them.
Listening == mainPc \in {"serving", "stop"}

\* The process runs until main returns.
Running == mainPc # "exited"

\* ENABLE_AUTO_CLEANUP is set to either value.
ShutdownInit == InitServing /\ \E enabled \in BOOLEAN : reaper = Start(enabled)

ShutdownHandlers ==
    \/ \E r \in webhookReqs : HandleWebhook_Log(r, TRUE)
    \/ \E r \in webhookReqs : HandleWebhook_Broadcast(r)
    \/ \E s \in 1..MaxStreams : SSE_SeedNext(s)
    \/ \E s \in 1..MaxStreams : addClient(s)
    \/ \E s \in 1..MaxStreams : SSE_Receive(s)

ShutdownNext ==
    \/ /\ Listening
       /\ nextEventId <= ShutdownEvents
       /\ HandleWebhook("wh_A", Path(1, FALSE), 0, TRUE)
    \/ /\ Listening
       /\ handleSSEStream("ck_A")
    \/ /\ Running
       /\ ShutdownHandlers
    \/ /\ Running
       /\ \E s \in 1..MaxStreams : removeClient(s)
    \/ cleanup
    \/ /\ Running
       /\ \E d \in TickSteps : Tick(d)
    \/ Signal
    \/ CleanupService_Stop
    \/ Shutdown

\* The scheduler runs every goroutine that can go on: the handlers finish
\* their requests, main goes on after a send that was received and after
\* Shutdown's wait. The subscribers disconnect when they choose to.
ShutdownSpec ==
    /\ ShutdownInit
    /\ [][ShutdownNext]_vars
    /\ WF_vars(ShutdownHandlers)
    /\ WF_vars(CleanupService_Stop)
    /\ WF_vars(Shutdown)

----------------------------------------------------------------------------
(* TimeoutSpec: the push streams of one subscriber that stays connected,    *)
(* past the write deadline of their connections. The process is not shut    *)
(* down. The ticker of a stream is created after the server has set the     *)
(* deadline, so its first tick comes HeartbeatPeriod >= WriteTimeout seconds *)
(* later, after the deadline; the task returns through ctx.Done() once the  *)
(* server has cancelled the request's context.                              *)

TimeoutNext ==
    \/ /\ nextEventId <= TimeoutEvents
       /\ HandleWebhook("wh_A", Path(1, FALSE), 0, TRUE)
    \/ \E r \in webhookReqs : HandleWebhook_Log(r, TRUE)
    \/ \E r \in webhookReqs : HandleWebhook_Broadcast(r)
    \/ handleSSEStream("ck_A")
    \/ \E s \in 1..MaxStreams : SSE_SeedNext(s)
    \/ \E s \in 1..MaxStreams : addClient(s)
    \/ \E s \in 1..MaxStreams : WriteDeadline(s)
    \/ \E s \in 1..MaxStreams : SSE_Receive(s)
    \/ \E s \in DOMAIN streams :
          /\ HeartbeatPeriod >= WriteTimeout => streams[s].late
          /\ SSE_Heartbeat(s)
    \/ \E s \in DOMAIN streams :
          /\ streams[s].werr
          /\ removeClient(s)

TimeoutSpec == Init /\ [][TimeoutNext]_vars

----------------------------------------------------------------------------
(* EffectSpec: ingest requests whose side effects succeed or fail, each on  *)
(* its own, with a subscriber connecting.                                   *)

EffectNext ==
    \/ /\ nextEventId <= EffectEvents
       /\ \E k \in WebhookKeys : HandleWebhook(k, Path(1, FALSE), 0, TRUE)
    \/ \E r \in webhookReqs, logged, counted, queued \in BOOLEAN :
          HandleWebhook_SideEffects(r, logged, counted, queued)
    \/ \E r \in webhookReqs : HandleWebhook_Broadcast(r)
    \/ handleSSEStream("ck_A")
    \/ \E s \in 1..MaxStreams : SSE_SeedNext(s)
    \/ \E s \in 1..MaxStreams : addClient(s)

EffectSpec == Init /\ [][EffectNext]_vars

----------------------------------------------------------------------------
(* Magic links: AuthService. A token is a number here (32 random bytes in   *)
(* the code, never generated twice); 0 stands for NULL. The clock is in     *)
(* hours.                                                                   *)

magicUnchanged == <<ticks, limiterVars, procVars, api_keys, statVars, crypt, clientVars, events,
                    webhook_logs, nextEventId, webhookReqs, ackReqs, nextAckId, streams,
                    nextStream, clients, okEvents, ackDenied, pluginVars>>

\* StoreMagicLinkToken: UPDATE api_keys SET magic_link_token = $1,
\* magic_link_expires_at = now + magicLinkExpiry, magic_link_used_at = NULL
\* WHERE user_email = $3 AND key_type = 'webhook'.
StoreMagicLinkToken(links, email, token, t) ==
    [links EXCEPT ![email] = [token |-> token,
                              expires_at |-> t + MagicLinkExpiry \div SecondsPerHour,
                              used |-> FALSE]]

\* HandleRequestLogin / HandleRegister: GenerateMagicLinkToken, then
\* StoreMagicLinkToken for an owner who has a webhook key.
HandleRequestLogin(email) ==
    /\ nextToken <= MaxTokens
    /\ \E k \in DOMAIN api_keys :
          api_keys[k].user_email = email /\ api_keys[k].key_type = "webhook"
    /\ magic_links' = StoreMagicLinkToken(magic_links, email, nextToken, now)
    /\ nextToken' = nextToken + 1
    /\ UNCHANGED <<now, verifyReqs, nextVerify, granted, magicUnchanged>>

\* VerifyMagicLinkToken up to its UPDATE: the SELECT by token, then the
\* checks of magic_link_used_at and of the expiry against time.Now().
VerifyCheck(links, token, t) ==
    IF ~\E o \in DOMAIN links : links[o].token = token THEN "ErrTokenInvalid"
    ELSE LET o == CHOOSE o \in DOMAIN links : links[o].token = token
         IN IF links[o].used THEN "ErrTokenUsed"
            ELSE IF t > links[o].expires_at THEN "ErrTokenExpired"
            ELSE "ok"

\* A verification passes its checks; its UPDATE is a later statement, not in
\* one transaction with the SELECT. (A verification that fails a check
\* returns its error and changes nothing.)
VerifyMagicLinkToken_Select(token) ==
    /\ nextVerify <= MaxVerifies
    /\ VerifyCheck(magic_links, token, now) = "ok"
    /\ LET o == CHOOSE o \in DOMAIN magic_links : magic_links[o].token = token
       IN verifyReqs' = verifyReqs \cup
             {[id |-> nextVerify, token |-> token, email |-> o, checked_at |-> now,
               expires_at |-> magic_links[o].expires_at]}
    /\ nextVerify' = nextVerify + 1
    /\ UNCHANGED <<now, magic_links, nextToken, granted, magicUnchanged>>

\* VerifyMagicLinkToken: UPDATE api_keys SET magic_link_used_at = NOW() WHERE
\* magic_link_token = $1, then return the email; a failed UPDATE (marked =
\* FALSE) returns the error.
VerifyMagicLinkToken_Mark(r, marked) ==
    /\ r \in verifyReqs
    /\ magic_links' = IF marked
                      THEN [o \in DOMAIN magic_links |->
                              IF magic_links[o].token = r.token
                              THEN [magic_links[o] EXCEPT !.used = TRUE]
                              ELSE magic_links[o]]
                      ELSE magic_links
    /\ granted' = IF marked THEN [granted EXCEPT ![r.token] = @ + 1] ELSE granted
    /\ verifyReqs' = verifyReqs \ {r}
    /\ UNCHANGED <<now, nextToken, nextVerify, magicUnchanged>>

\* The clock advances to the expiry of a token stored now, or past it.
MagicSteps == {MagicLinkExpiry \div SecondsPerHour, MagicLinkExpiry \div SecondsPerHour + 1}

MagicNext ==
    \/ \E o \in Owners : HandleRequestLogin(o)
    \/ \E t \in 1..MaxTokens : VerifyMagicLinkToken_Select(t)
    \/ \E r \in verifyReqs, marked \in BOOLEAN : VerifyMagicLinkToken_Mark(r, marked)
    \/ \E d \in MagicSteps : Tick(d)

MagicSpec == Init /\ [][MagicNext]_vars

----------------------------------------------------------------------------
(* ReapSpec: the reaper next to ingest, test and ACK requests. The clock    *)
(* advances by an hour, or up to the expiry of the events ingested so far.  *)

ReapSteps == {WebhookTTL}

ReapNext ==
    \/ /\ nextEventId <= ReapEvents
       /\ \E k \in WebhookKeys : HandleWebhook(k, Path(1, FALSE), 0, TRUE)
    \/ /\ nextEventId <= ReapEvents
       /\ \E k \in ClientKeys : HandleTestWebhook(k, TRUE)
    \/ \E r \in webhookReqs : HandleWebhook_Log(r, TRUE)
    \/ \E r \in webhookReqs : HandleWebhook_Broadcast(r)
    \/ \E k \in ClientKeys, e \in EventIds : HandleACK(k, e, TRUE)
    \/ \E r \in ackReqs : HandleACK_Mark(r, TRUE)
    \/ \E r \in ackReqs : HandleACK_Log(r, TRUE)
    \/ cleanup
    \/ NextHour
    \/ \E d \in ReapSteps : Tick(d)

ReapSpec == Init /\ [][ReapNext]_vars

----------------------------------------------------------------------------
(* OverflowSpec: one producer that sends one request an hour, each after    *)
(* the one before was answered, enough of them to fill a channel; and its   *)
(* subscriber, which holds one connection at a time, connects before the    *)
(* producer's first request or after its last, pulls at any time, and does  *)
(* not read its channel before the producer's last request.                 *)

OverflowNext ==
    \/ /\ webhookReqs = {}
       /\ \A e \in DOMAIN events : events[e].created_at < now
       /\ HandleWebhook("wh_A", Path(1, FALSE), 0, TRUE)
    \/ \E r \in webhookReqs : HandleWebhook_Log(r, TRUE)
    \/ \E r \in webhookReqs : HandleWebhook_Broadcast(r)
    \/ /\ nextEventId \in {1, MaxEvents + 1}
       /\ \A s \in DOMAIN streams : streams[s].pc = "done"
       /\ handleSSEStream("ck_A")
    \/ \E s \in 1..MaxStreams : SSE_SeedNext(s)
    \/ \E s \in 1..MaxStreams : addClient(s)
    \/ /\ nextEventId = MaxEvents + 1
       /\ \E s \in 1..MaxStreams : SSE_Receive(s)
    \/ \E s \in 1..MaxStreams : removeClient(s)
    \/ handlePolling("ck_A")
    \/ NextHour

OverflowSpec == Init /\ [][OverflowNext]_vars

----------------------------------------------------------------------------
(* RateSpec: the ingest route with its rate limiter. Requests of every kind *)
(* (admitted, and turned away by each check or by several) arrive at any    *)
(* rate; the limiters' clock advances by one token period or by a minute.   *)

RateInputs ==
    {[key |-> k, path |-> p, bodyLen |-> b] :
        k \in {"wh_A", "unknown"},
        p \in {Path(1, FALSE), Path(0, FALSE), Path(maxPathLength + 1, FALSE), Path(2, TRUE)},
        b \in {maxBodySize, maxBodySize + 1}}
    \cup {[key |-> "wh_B", path |-> Path(1, FALSE), bodyLen |-> 0]}

ElapseSteps == {1, Minute}

RateNext ==
    \/ \E i \in RateInputs :
          /\ RouteStatus(i.key, i.path, i.bodyLen) = 0 => nextEventId <= RateEvents
          /\ WebhookRoute(i.key, i.path, i.bodyLen, TRUE)
    \/ \E r \in webhookReqs : HandleWebhook_Log(r, TRUE)
    \/ \E r \in webhookReqs : HandleWebhook_Broadcast(r)
    \/ \E d \in ElapseSteps : Elapse(d)

RateSpec == Init /\ [][RateNext]_vars

----------------------------------------------------------------------------
(* The plugin: ObsidianWebhooksPlugin, PollingHandler, SSEHandler,          *)
(* ACKHandler. JavaScript runs one callback at a time, so every action is   *)
(* the code between two awaits.                                             *)

PluginKey == "ck_A"         \* settings.clientKey
PluginStream == 1           \* the push stream of the plugin's EventSource

\* The invocation of pollOnce / onmessage that delivers the events of q.
Delivery(src, q) ==
    IF q = <<>> THEN NoTask
    ELSE [src |-> src, queue |-> q, pc |-> "check", attempt |-> 0]

FreeTask == CHOOSE i \in 1..MaxTasks : tasks[i] = NoTask

\* handleEvent returned: pollOnce goes on with its next event, onmessage ends.
NextEvent(t) == Delivery(t.src, Tail(t.queue))

\* processEvent: processedEvents.add(event.id), then the set is cut to its
\* last TrimKeep entries when it has more than TrimThreshold.
MarkProcessed(set, id) ==
    LET added == IF id \in Range(set) THEN set ELSE Append(set, id)
    IN IF Len(added) > TrimThreshold
       THEN SubSeq(added, Len(added) - TrimKeep + 1, Len(added))
       ELSE added

\* pollOnce: GET /events/{key}?poll=true; a failed request is logged.
StartPoll(src) ==
    IF serverUp
    THEN \E q \in PollResponses(PluginKey) :
            tasks' = [tasks EXCEPT ![FreeTask] = Delivery(src, q)]
    ELSE UNCHANGED tasks

\* connect: the initial pollOnce is awaited.
connect ==
    /\ plugin = "disconnected"
    /\ plugin' = "syncing"
    /\ StartPoll("initial")
    /\ UNCHANGED <<serverVars, processedEvents, sseRead, vaultWrites, ackFailed,
                   serverUp, outages>>

\* connect, after the initial poll: sseHandler.connect creates the
\* EventSource, pollingHandler.start sets the timer.
sseConnect ==
    /\ plugin = "syncing"
    /\ \A i \in 1..MaxTasks : tasks[i].src # "initial"
    /\ plugin' = "connected"
    /\ UNCHANGED <<serverVars, processedEvents, tasks, sseRead, vaultWrites, ackFailed,
                   serverUp, outages>>

\* PollingHandler: the timer (and start itself) calls void pollOnce(), whether
\* or not an earlier pollOnce is still running.
pollOnce ==
    /\ plugin = "connected"
    /\ \E i \in 1..MaxTasks : tasks[i] = NoTask
    /\ StartPoll("poll")
    /\ UNCHANGED <<serverVars, plugin, processedEvents, sseRead, vaultWrites, ackFailed,
                   serverUp, outages>>

\* SSEHandler: eventSource.onmessage for the next frame of the push stream.
onmessage ==
    /\ plugin = "connected"
    /\ PluginStream \in DOMAIN streams
    /\ sseRead < Len(streams[PluginStream].frames)
    /\ \E i \in 1..MaxTasks : tasks[i] = NoTask
    /\ tasks' = [tasks EXCEPT ![FreeTask] =
                   Delivery("sse", <<streams[PluginStream].frames[sseRead + 1].EventID>>)]
    /\ sseRead' = sseRead + 1
    /\ UNCHANGED <<serverVars, plugin, processedEvents, vaultWrites, ackFailed,
                   serverUp, outages>>

\* processEvent up to await fileHandler.processEvent: the duplicate check.
processEvent(i) ==
    /\ tasks[i].pc = "check"
    /\ tasks' = [tasks EXCEPT ![i] =
                   IF Head(tasks[i].queue) \in Range(processedEvents)
                   THEN NextEvent(tasks[i])
                   ELSE [tasks[i] EXCEPT !.pc = "write"]]
    /\ UNCHANGED <<serverVars, plugin, processedEvents, sseRead, vaultWrites, ackFailed,
                   serverUp, outages>>

\* processEvent: fileHandler.processEvent returned (written) or threw; the
\* catch block returns without marking the event processed.
processEvent_Write(i, written) ==
    /\ tasks[i].pc = "write"
    /\ IF written
       THEN /\ vaultWrites' = [vaultWrites EXCEPT ![Head(tasks[i].queue)] = @ + 1]
            /\ tasks' = [tasks EXCEPT ![i].pc = "ack"]
       ELSE /\ UNCHANGED vaultWrites
            /\ tasks' = [tasks EXCEPT ![i] = NextEvent(tasks[i])]
    /\ UNCHANGED <<serverVars, plugin, processedEvents, sseRead, ackFailed,
                   serverUp, outages>>

\* acknowledgeEvent: one sendACK attempt. A network error is retried up to
\* maxRetries times; a 4xx answer or the last failed retry returns false.
\* The server's HandleACK is taken as one step here. Whatever
\* acknowledgeEvent returned, processEvent then marks the event processed.
acknowledgeEvent(i) ==
    /\ tasks[i].pc = "ack"
    /\ LET id == Head(tasks[i].queue)
           done == [tasks EXCEPT ![i] = NextEvent(tasks[i])]
       IN IF serverUp
          THEN /\ IF AckRejection(PluginKey, id, TRUE) = 0
                  THEN /\ events' = MarkEventAsProcessed(events, id, now)
                       /\ webhook_logs' = UpdateWebhookLogAcked(webhook_logs, id, now)
                       /\ UNCHANGED ackFailed
                  ELSE /\ ackFailed' = ackFailed \cup {id}
                       /\ UNCHANGED <<events, webhook_logs>>
               /\ processedEvents' = MarkProcessed(processedEvents, id)
               /\ tasks' = done
          ELSE /\ UNCHANGED <<events, webhook_logs>>
               /\ IF tasks[i].attempt < maxRetries
                  THEN /\ tasks' = [tasks EXCEPT ![i].attempt = @ + 1]
                       /\ UNCHANGED <<processedEvents, ackFailed>>
                  ELSE /\ processedEvents' = MarkProcessed(processedEvents, id)
                       /\ ackFailed' = ackFailed \cup {id}
                       /\ tasks' = done
    /\ UNCHANGED <<now, ticks, limiterVars, restVars, nextEventId, webhookReqs, ackReqs,
                   nextAckId, streams, nextStream, clients, okEvents, ackDenied, plugin,
                   sseRead, vaultWrites, serverUp, outages>>

\* The server stops answering the plugin's requests, and answers again.
ServerDown ==
    /\ serverUp
    /\ outages < MaxOutages
    /\ serverUp' = FALSE
    /\ outages' = outages + 1
    /\ UNCHANGED <<serverVars, plugin, processedEvents, tasks, sseRead, vaultWrites,
                   ackFailed>>

ServerUp ==
    /\ ~serverUp
    /\ serverUp' = TRUE
    /\ UNCHANGED <<serverVars, plugin, processedEvents, tasks, sseRead, vaultWrites,
                   ackFailed, outages>>

----------------------------------------------------------------------------
(* Encryption at rest: Encryptor and the EventService calls that use it. A  *)
(* byte string is a sequence of numbers below 256. The AEAD of the library  *)
(* (AES-256-GCM) is stood for by a cipher of the same shape: the ciphertext  *)
(* is the plaintext masked byte by byte with a keystream of key and nonce,  *)
(* followed by a tag of Overhead bytes over key, nonce and ciphertext.      *)

EncryptionKey == [i \in 1..KeySize |-> (i * 11) % 256]

\* The nonces rand.Reader gives in the behaviours followed.
Nonces == {[i \in 1..NonceSize |-> 0], [i \in 1..NonceSize |-> (i * 37) % 256]}

PayloadBytes == {0, 1, 255}

RECURSIVE Payloads(_)
Payloads(n) ==
    IF n = 0 THEN {<<>>}
    ELSE Payloads(n - 1) \cup {Append(b, x) : b \in Payloads(n - 1), x \in PayloadBytes}

RECURSIVE SumBytes(_)
SumBytes(b) == IF b = <<>> THEN 0 ELSE (Head(b) + SumBytes(Tail(b))) % 256

Keystream(nonce, i) ==
    (EncryptionKey[((i - 1) % KeySize) + 1] + 7 * nonce[((i - 1) % NonceSize) + 1] + i) % 256

Tag(nonce, ct) ==
    [j \in 1..Overhead |->
        (SumBytes(ct) + SumBytes(nonce) + EncryptionKey[j] + j * Len(ct)) % 256]

\* gcm.Seal(dst, nonce, plaintext, nil): dst, ciphertext, tag.
Seal(dst, nonce, plaintext) ==
    LET ct == [i \in 1..Len(plaintext) |-> (plaintext[i] + Keystream(nonce, i)) % 256]
    IN dst \o ct \o Tag(nonce, ct)

\* gcm.Open(nil, nonce, encrypted, nil): the plaintext when the tag is
\* authentic, an error otherwise.
Open(nonce, encrypted) ==
    LET n == Len(encrypted) - Overhead
        ct == SubSeq(encrypted, 1, n)
    IN IF SubSeq(encrypted, n + 1, Len(encrypted)) = Tag(nonce, ct)
       THEN [err |-> FALSE,
             plaintext |-> [i \in 1..n |-> (ct[i] + 256 - Keystream(nonce, i)) % 256]]
       ELSE [err |-> TRUE, plaintext |-> <<>>]

\* Encryptor.Encrypt with a key configured: nonce || ciphertext || tag.
Encrypt(nonce, plaintext) == Seal(nonce, nonce, plaintext)

\* Fault variant of Decrypt: data of exactly nonce and tag is taken as too
\* short.
Decrypt_ShortInclusive(ciphertext) ==
    IF Len(ciphertext) <= NonceSize + Overhead
    THEN ciphertext
    ELSE LET opened == Open(SubSeq(ciphertext, 1, NonceSize),
                            SubSeq(ciphertext, NonceSize + 1, Len(ciphertext)))
         IN IF opened.err THEN ciphertext ELSE opened.plaintext

\* Encryptor.Decrypt with a key configured: data shorter than nonce and tag,
\* and data that does not open, is returned as it is.
Decrypt(ciphertext) ==
    IF Len(ciphertext) < NonceSize + Overhead
    THEN ciphertext
    ELSE LET opened == Open(SubSeq(ciphertext, 1, NonceSize),
                            SubSeq(ciphertext, NonceSize + 1, Len(ciphertext)))
         IN IF opened.err THEN ciphertext ELSE opened.plaintext

cryptUnchanged == <<now, ticks, limiterVars, procVars, api_keys, statVars, magicVars,
                    clientVars, events, webhook_logs, nextEventId, webhookReqs, ackReqs,
                    nextAckId, streams, nextStream, clients, okEvents, ackDenied,
                    pluginVars>>

\* CreateEvent with a key configured: events.data is Encrypt(data).
Crypt_CreateEvent(data, nonce) ==
    /\ crypt.pc = "idle"
    /\ crypt' = [crypt EXCEPT !.pc = "stored", !.payload = data,
                              !.data = Encrypt(nonce, data), !.encrypted = TRUE]
    /\ UNCHANGED cryptUnchanged

\* An event created before the key was configured: events.data is the
\* payload (Encrypt of a nil Encryptor).
Crypt_CreateEventPlain(data) ==
    /\ crypt.pc = "idle"
    /\ crypt' = [crypt EXCEPT !.pc = "stored", !.payload = data, !.data = data]
    /\ UNCHANGED cryptUnchanged

\* GetUnprocessedEvents (pull): decryptEventData on the row read.
Crypt_GetUnprocessedEvents ==
    /\ crypt.pc = "stored"
    /\ crypt' = [crypt EXCEPT !.pc = "read", !.out = Decrypt(crypt.data), !.via = "pull"]
    /\ UNCHANGED cryptUnchanged

\* GetEventByID: decryptEventData on the row read.
Crypt_GetEventByID ==
    /\ crypt.pc = "stored"
    /\ crypt' = [crypt EXCEPT !.pc = "read", !.out = Decrypt(crypt.data), !.via = "getById"]
    /\ UNCHANGED cryptUnchanged

CryptNext ==
    \/ \E data \in Payloads(MaxLen), nonce \in Nonces : Crypt_CreateEvent(data, nonce)
    \/ \E data \in Payloads(MaxLen) : Crypt_CreateEventPlain(data)
    \/ Crypt_GetUnprocessedEvents
    \/ Crypt_GetEventByID

CryptSpec == Init /\ [][CryptNext]_vars

----------------------------------------------------------------------------
(* ACKHandler: one call of acknowledgeEvent, request by request. A response *)
(* is an HTTP status, or a rejected fetch (rejected = TRUE, no status).     *)

ackUnchanged == <<now, ticks, limiterVars, procVars, api_keys, statVars, magicVars, crypt,
                  events, webhook_logs, nextEventId, webhookReqs, ackReqs, nextAckId,
                  streams, nextStream, clients, okEvents, ackDenied, pluginVars>>

Responses ==
    {[rejected |-> FALSE, status |-> st] :
        st \in {200, 204, 301, 400, 401, 404, 409, 429, 500, 503}}
    \cup {[rejected |-> TRUE, status |-> 0]}

\* Fault variant of sendACK: every failure is thrown, a 4xx answer too.
sendACK_Throw4xx(resp) ==
    IF resp.rejected THEN "throw"
    ELSE IF resp.status >= 200 /\ resp.status <= 299 THEN "true"
    ELSE IF resp.status = 409 THEN "true"
    ELSE "throw"

\* sendACK: true for response.ok (2xx) and for 409, a thrown error for a
\* rejected fetch and for a status of 500 or more, false for the rest.
sendACK(resp) ==
    IF resp.rejected THEN "throw"
    ELSE IF resp.status >= 200 /\ resp.status <= 299 THEN "true"
    ELSE IF resp.status = 409 THEN "true"
    ELSE IF resp.status >= 500 THEN "throw"
    ELSE "false"

\* acknowledgeEvent is called: it throws when no client key is configured,
\* and enters its loop with attempt = 0 otherwise.
ACKHandler_acknowledgeEvent(clientKey) ==
    /\ ackCall.pc = "idle"
    /\ ackCall' = [ackCall EXCEPT !.pc = IF clientKey = "" THEN "thrown" ELSE "send"]
    /\ UNCHANGED <<sseClient, poller, ackUnchanged>>

\* One pass of the loop: await sendACK; true and false are returned; a
\* thrown error is caught, and the loop sleeps when attempt < maxRetries
\* and goes on to attempt + 1, which ends it when attempt = maxRetries.
ACKHandler_sendACK(resp) ==
    /\ ackCall.pc = "send"
    /\ ackCall.attempt <= maxRetries
    /\ LET sent == [ackCall EXCEPT !.history = Append(@, resp)]
       IN ackCall' =
            IF sendACK(resp) = "true"
            THEN [sent EXCEPT !.pc = "done", !.result = TRUE]
            ELSE IF sendACK(resp) = "false"
            THEN [sent EXCEPT !.pc = "done", !.result = FALSE]
            ELSE IF ackCall.attempt < maxRetries
            THEN [sent EXCEPT !.pc = "sleep"]
            ELSE [sent EXCEPT !.pc = "done", !.result = FALSE, !.attempt = @ + 1]
    /\ UNCHANGED <<sseClient, poller, ackUnchanged>>

\* await this.sleep(retryDelayMs * Math.pow(2, attempt)), then attempt++.
ACKHandler_sleep ==
    /\ ackCall.pc = "sleep"
    /\ ackCall' = [ackCall EXCEPT !.slept = Append(@, retryDelayMs * 2^ackCall.attempt),
                                  !.attempt = @ + 1,
                                  !.pc = "send"]
    /\ UNCHANGED <<sseClient, poller, ackUnchanged>>

AckNext ==
    \/ \E k \in {PluginKey, ""} : ACKHandler_acknowledgeEvent(k)
    \/ \E resp \in Responses : ACKHandler_sendACK(resp)
    \/ ACKHandler_sleep

AckSpec == Init /\ [][AckNext]_vars

----------------------------------------------------------------------------
(* The plugin's SSEHandler. eventSource is null, or the readyState of the   *)
(* object the handler holds, which is source; liveSources and pendingTimers *)
(* are what the runtime holds: the EventSource objects created and not      *)
(* closed, the number of timers set and neither cleared nor fired.          *)

autoReconnect == TRUE

Min(a, b) == IF a < b THEN a ELSE b

\* Fault variant of SSEHandler_close: the reference is dropped, the object
\* is not closed.
SSEHandler_close_Dropped(h) == [h EXCEPT !.eventSource = "null", !.source = 0]

\* if (this.eventSource) { this.eventSource.close(); this.eventSource = null }
SSEHandler_close(h) ==
    IF h.eventSource # "null"
    THEN [h EXCEPT !.eventSource = "null", !.source = 0,
                   !.liveSources = @ \ {h.source}]
    ELSE h

\* if (this.reconnectTimer) { clearTimeout(...); this.reconnectTimer = null }
SSEHandler_clearTimer(h) ==
    IF h.reconnectTimer
    THEN [h EXCEPT !.reconnectTimer = FALSE, !.pendingTimers = @ - 1]
    ELSE h

\* disconnect(): mark the disconnect as manual, clear the timer, close the
\* EventSource, reset the attempts.
disconnect(h) ==
    [SSEHandler_close(SSEHandler_clearTimer([h EXCEPT !.isManualDisconnect = TRUE]))
        EXCEPT !.reconnectAttempts = 0, !.state = "disconnected"]

\* scheduleReconnect(): give up at maxReconnectAttempts when it is set;
\* otherwise count the attempt and set a timer of
\* min(reconnectDelayMs * 2^(attempts - 1), 30000) ms.
scheduleReconnect(h) ==
    IF maxReconnectAttempts > 0 /\ h.reconnectAttempts >= maxReconnectAttempts
    THEN [h EXCEPT !.state = "error"]
    ELSE [h EXCEPT !.reconnectAttempts = @ + 1,
                   !.delay = Min(reconnectDelayMs * 2^h.reconnectAttempts, ReconnectCapMs),
                   !.state = "connecting",
                   !.reconnectTimer = TRUE,
                   !.pendingTimers = @ + 1]

\* connect(): disconnect first when an EventSource is held, clear a pending
\* timer, create the EventSource; when its constructor throws (created =
\* FALSE) schedule a reconnect.
SSEHandler_connectBody(h, created) ==
    LET h1 == IF h.eventSource # "null" THEN disconnect(h) ELSE h
        h2 == [SSEHandler_clearTimer([h1 EXCEPT !.isManualDisconnect = FALSE])
                  EXCEPT !.state = "connecting"]
    IN IF created
       THEN [h2 EXCEPT !.eventSource = "connecting", !.source = h.nextSource,
                       !.liveSources = @ \cup {h.nextSource}, !.nextSource = @ + 1]
       ELSE IF autoReconnect
       THEN scheduleReconnect([h2 EXCEPT !.state = "error"])
       ELSE [h2 EXCEPT !.state = "error"]

sseUnchanged == <<ackCall, poller, ackUnchanged>>

SSEHandler_connect(created) ==
    /\ sseClient' = SSEHandler_connectBody(sseClient, created)
    /\ UNCHANGED sseUnchanged

SSEHandler_disconnect ==
    /\ sseClient' = disconnect(sseClient)
    /\ UNCHANGED sseUnchanged

\* eventSource.onopen: the attempts are reset.
SSEHandler_onopen ==
    /\ sseClient.eventSource = "connecting"
    /\ sseClient' = [sseClient EXCEPT !.eventSource = "open",
                                      !.reconnectAttempts = 0,
                                      !.state = "connected"]
    /\ UNCHANGED sseUnchanged

\* eventSource.onerror: close the EventSource; schedule a reconnect unless
\* the disconnect was manual.
SSEHandler_onerror ==
    /\ sseClient.eventSource # "null"
    /\ LET h == SSEHandler_close([sseClient EXCEPT !.state = "error"])
       IN sseClient' = IF ~h.isManualDisconnect /\ autoReconnect
                       THEN scheduleReconnect(h)
                       ELSE h
    /\ UNCHANGED sseUnchanged

\* The reconnect timer fires: this.reconnectTimer = null; void this.connect().
SSEHandler_reconnectTimer(created) ==
    /\ sseClient.pendingTimers > 0
    /\ sseClient' = SSEHandler_connectBody(
                        [sseClient EXCEPT !.reconnectTimer = FALSE,
                                          !.pendingTimers = @ - 1], created)
    /\ UNCHANGED sseUnchanged

\* SseSpec: the handler under every order of connect(), disconnect(), the
\* EventSource's events and the timer.
SseNext ==
    \/ sseClient.reconnectAttempts < MaxReconnects /\ SSEHandler_onerror
    \/ \E created \in BOOLEAN :
          /\ created => sseClient.nextSource <= MaxSources
          /\ ~created => sseClient.reconnectAttempts < MaxReconnects
          /\ SSEHandler_reconnectTimer(created)
    \/ SSEHandler_onopen
    \/ SSEHandler_disconnect
    \/ \E created \in BOOLEAN :
          /\ created => sseClient.nextSource <= MaxSources
          /\ ~created => sseClient.reconnectAttempts < MaxReconnects
          /\ SSEHandler_connect(created)

SseSpec == Init /\ [][SseNext]_vars

----------------------------------------------------------------------------
(* The plugin's PollingHandler. intervals holds the periods of the interval *)
(* timers the runtime has (set and not cleared); requests counts the poll   *)
(* requests issued, inFlight those not yet answered.                        *)

pollUnchanged == <<ackCall, sseClient, ackUnchanged>>

\* The intervalMs arguments of start(): none (0 here), or the setting
\* pollingInterval * 1000.
IntervalArgs == {0, 1000, defaultIntervalMs}

\* pollOnce up to its await: the poll request is issued.
PollRequest(p) == [p EXCEPT !.requests = @ + 1, !.inFlight = @ + 1]

\* start(): a no-op while polling; otherwise polling = true, pollOnce, and
\* setInterval with intervalMs ?? defaultIntervalMs.
start(p, intervalMs) ==
    IF p.polling
    THEN p
    ELSE [PollRequest(p) EXCEPT
            !.polling = TRUE,
            !.pollingTimer = TRUE,
            !.intervals = Append(@, IF intervalMs = 0 THEN defaultIntervalMs
                                    ELSE intervalMs)]

\* Fault variant of stop: the flag is cleared, the interval is not.
stop_KeepInterval(p) == [p EXCEPT !.polling = FALSE]

\* stop(): polling = false; clearInterval(pollingTimer) when it is set.
stop(p) ==
    IF p.pollingTimer
    THEN [p EXCEPT !.polling = FALSE, !.pollingTimer = FALSE, !.intervals = Tail(@)]
    ELSE [p EXCEPT !.polling = FALSE]

PollingHandler_start(intervalMs) ==
    /\ poller' = start(poller, intervalMs)
    /\ UNCHANGED pollUnchanged

PollingHandler_stop ==
    /\ poller' = stop(poller)
    /\ UNCHANGED pollUnchanged

\* An interval timer fires: void this.pollOnce().
PollingHandler_interval ==
    /\ poller.intervals # <<>>
    /\ poller' = PollRequest(poller)
    /\ UNCHANGED pollUnchanged

\* A poll request is answered (or fails): pollOnce goes on to the events.
PollingHandler_response ==
    /\ poller.inFlight > 0
    /\ poller' = [poller EXCEPT !.inFlight = @ - 1]
    /\ UNCHANGED pollUnchanged

PollNext ==
    \/ \E intervalMs \in IntervalArgs :
          /\ ~poller.polling => poller.requests < MaxPolls
          /\ PollingHandler_start(intervalMs)
    \/ PollingHandler_stop
    \/ poller.requests < MaxPolls /\ PollingHandler_interval
    \/ PollingHandler_response

PollSpec == Init /\ [][PollNext]_vars

----------------------------------------------------------------------------
(* PluginSpec: one plugin with client key PluginKey, its producer, and the  *)
(* server.                                                                  *)

PluginProducer ==
    /\ nextEventId <= PluginEvents
    /\ HandleWebhook(pair_id[PluginKey], Path(1, FALSE), 0, TRUE)

PluginServer ==
    \/ \E r \in webhookReqs : HandleWebhook_Log(r, TRUE)
    \/ \E r \in webhookReqs : HandleWebhook_Broadcast(r)
    \/ /\ plugin = "connected" /\ serverUp /\ nextStream = PluginStream
       /\ handleSSEStream(PluginKey)
    \/ SSE_SeedNext(PluginStream)
    \/ addClient(PluginStream)
    \/ SSE_Receive(PluginStream)

PluginClient ==
    \/ connect
    \/ sseConnect
    \/ pollOnce
    \/ onmessage
    \/ \E i \in 1..MaxTasks : processEvent(i)
    \/ \E i \in 1..MaxTasks : acknowledgeEvent(i)
    \/ ServerDown
    \/ ServerUp

PluginNext ==
    \/ PluginProducer
    \/ PluginServer
    \/ PluginClient
    \/ \E i \in 1..MaxTasks, written \in BOOLEAN : processEvent_Write(i, written)

PluginSpec == Init /\ [][PluginNext]_vars

\* PluginFairSpec: every vault write succeeds; the event loop runs every
\* callback that is ready, the timer keeps firing, the server's handlers
\* finish, and the server answers again after an outage.
PluginFairNext ==
    \/ PluginProducer
    \/ PluginServer
    \/ PluginClient
    \/ \E i \in 1..MaxTasks : processEvent_Write(i, TRUE)

PluginFairSpec ==
    /\ Init
    /\ [][PluginFairNext]_vars
    /\ WF_vars(PluginServer)
    /\ WF_vars(connect)
    /\ WF_vars(sseConnect)
    /\ WF_vars(pollOnce)
    /\ WF_vars(onmessage)
    /\ \A i \in 1..MaxTasks : WF_vars(processEvent(i))
    /\ \A i \in 1..MaxTasks : WF_vars(processEvent_Write(i, TRUE))
    /\ \A i \in 1..MaxTasks : WF_vars(acknowledgeEvent(i))
    /\ WF_vars(ServerUp)

----------------------------------------------------------------------------
(* Properties *)

\* The client keys paired with the webhook key of event e.
Subscribers(e) == {k \in ClientKeys : pair_id[k] = events[e].webhook_key_id}

\* C1: every frame a push stream opened on a client key carries, and every
\* event offered to its channel, is an event of the webhook key paired with
\* that client key.
C1_FramesOfPairedProducer ==
    \A s \in DOMAIN streams :
        /\ \A i \in DOMAIN streams[s].frames :
              streams[s].frames[i].WebhookKeyID = pair_id[streams[s].key]
        /\ \A i \in DOMAIN streams[s].chan :
              streams[s].chan[i].WebhookKeyID = pair_id[streams[s].key]

\* C1, the case reached: a stream in steady state has written the frame of
\* an event of the other pair.
C1_ForeignFrame ==
    \E s \in DOMAIN streams : \E i \in DOMAIN streams[s].frames :
        /\ streams[s].pc = "steady"
        /\ streams[s].frames[i].WebhookKeyID # pair_id[streams[s].key]

\* C2: once an ingest request has answered ok with event e, every pull on the
\* paired client key contains e for as long as e is in the store and not
\* marked processed, whether or not e has been pushed over a stream.
C2_PullContainsAdmitted ==
    \A r \in okEvents : \A k \in ClientKeys :
        (/\ pair_id[k] = r.wk
         /\ r.event_id \in DOMAIN events
         /\ ~events[r.event_id].processed)
        => \A q \in PollResponses(k) : r.event_id \in Range(q)

\* C2, the case reached: an admitted, unprocessed event that a stream of the
\* paired key has pushed (its log row is delivered) is in the pull.
C2_PulledAfterPush ==
    \E r \in okEvents : \E s \in DOMAIN streams : \E l \in DOMAIN webhook_logs :
        /\ r.event_id \in DOMAIN events
        /\ ~events[r.event_id].processed
        /\ pair_id[streams[s].key] = r.wk
        /\ r.event_id \in {streams[s].frames[i].EventID : i \in DOMAIN streams[s].frames}
        /\ webhook_logs[l].event_id = r.event_id
        /\ webhook_logs[l].delivery_status = "delivered"
        /\ \A q \in PollResponses(streams[s].key) : r.event_id \in Range(q)

\* C3: the plugin writes each event id to the vault at most once.
C3_AtMostOneVaultWrite == \A e \in EventIds : vaultWrites[e] <= 1

\* C3, the case reached: an event written twice.
C3_WrittenTwice == \E e \in EventIds : vaultWrites[e] = 2

\* C4: with the plugin connected, every event the server has admitted is
\* eventually marked processed by an ACK (the server answers again after an
\* outage, and stays up).
C4_EveryEventEventuallyAcked ==
    \A e \in EventIds :
        ((\E r \in okEvents : r.event_id = e) /\ plugin = "connected")
            ~> (e \in DOMAIN events /\ events[e].processed)

\* C4, the case reached: acknowledgeEvent returned false for an event, the
\* server answers again, and the event is still unprocessed in the store.
C4_AckGivenUp ==
    \E e \in ackFailed :
        /\ serverUp
        /\ e \in DOMAIN events
        /\ ~events[e].processed
        /\ e \in Range(processedEvents)

\* C5: an ACK for an event of another pair is answered 403 and changes
\* neither the event nor its log row, nor does it go on to the store
\* operations; the paired client key's ACK is admitted afterwards.
C5_ForeignAckDenied ==
    /\ [](\A r \in ackReqs :
            r.event_id \in DOMAIN events
                => events[r.event_id].webhook_key_id = pair_id[r.ck])
    /\ [][\A k \in ClientKeys : \A e \in DOMAIN events :
            (events[e].webhook_key_id # pair_id[k] /\ HandleACK(k, e, TRUE))
            => /\ <<k, e>> \in ackDenied'
               /\ events' = events
               /\ webhook_logs' = webhook_logs
               /\ ackReqs' = ackReqs
               /\ \A k2 \in Subscribers(e) : AckRejection(k2, e, TRUE) = 0]_vars

\* C5, the case reached: after the foreign ACK was denied (it was the first
\* to reach the ownership check), the paired ACK has marked the event.
C5_PairedAckAfterDenial ==
    \E d \in ackDenied : \E r \in ackReqs :
        /\ r.event_id = d[2]
        /\ r.n = 2
        /\ r.pc = "log"
        /\ d[2] \in DOMAIN events
        /\ events[d[2]].processed

\* C6: when a paired ACK is answered {status: acknowledged}, the event is
\* processed and its log row is acked.
C6_AcknowledgedMeansProcessed ==
    [][\A r \in ackReqs :
          (\A r2 \in ackReqs' : r2.n # r.n)
          => /\ r.event_id \in DOMAIN events'
             /\ events'[r.event_id].processed
             /\ \E l \in LogsOf(webhook_logs', r.event_id) :
                   webhook_logs'[l].delivery_status = "acked"]_vars

\* C6, the case reached: no ACK is in flight, two have been answered, and an
\* event of the store is unprocessed.
C6_AcknowledgedUnprocessed ==
    /\ ackReqs = {}
    /\ nextAckId = MaxAcks + 1
    /\ ackDenied = {}
    /\ \E e \in DOMAIN events : ~events[e].processed

\* C7: an ACK that starts after another ACK has marked the event processed
\* leaves the event row (processed, processed_at) and the log row (state,
\* acked_at) as they are, so that two successive ACKs end in the state one
\* ACK ends in.
C7_SecondAckChangesNothing ==
    [][\A r \in ackReqs : \A updated \in BOOLEAN :
          (/\ ackReqs = {r}
           /\ r.seen
           /\ r.event_id \in DOMAIN events
           /\ events[r.event_id].processed
           /\ (HandleACK_Mark(r, updated) \/ HandleACK_Log(r, updated)))
          => /\ events'[r.event_id] = events[r.event_id]
             /\ \A l \in LogsOf(webhook_logs, r.event_id) :
                   webhook_logs[l].delivery_status = "acked"
                       => webhook_logs'[l] = webhook_logs[l]]_vars

\* C7, the case reached: the second ACK has moved processed_at while acked_at
\* is the first ACK's.
C7_ProcessedAtOverwritten ==
    \E e \in DOMAIN events : \E l \in LogsOf(webhook_logs, e) :
        /\ events[e].processed_at = At(WebhookTTL + 1)
        /\ webhook_logs[l].acked_at = At(0)

\* C8: every event of the store whose creating request has been answered has
\* exactly one delivery-log row.
C8_OneLogRowPerEvent ==
    \A e \in DOMAIN events :
        (\A r \in webhookReqs : r.event_id # e)
            => Cardinality(LogsOf(webhook_logs, e)) = 1

\* C8, the case reached: the test endpoint has answered ok for an event that
\* has no delivery-log row.
C8_TestEventWithoutLog ==
    \E r \in okEvents :
        /\ r.event_id \in DOMAIN events
        /\ events[r.event_id].expires_at = events[r.event_id].created_at + TestTTL
        /\ LogsOf(webhook_logs, r.event_id) = {}

\* pending < delivered < acked
Rank(status) == CASE status = "pending" -> 0 [] status = "delivered" -> 1 [] OTHER -> 2

\* C9: a log row never moves to an earlier state: it goes pending ->
\* delivered at most once and to acked at most once; delivered_at and
\* acked_at are written at that transition only, and are never overwritten.
C9_LogMovesForward ==
    [][\A l \in DOMAIN webhook_logs \cap DOMAIN webhook_logs' :
          LET old == webhook_logs[l]
              new == webhook_logs'[l]
          IN /\ Rank(new.delivery_status) >= Rank(old.delivery_status)
             /\ new.delivered_at # old.delivered_at
                   => /\ old.delivery_status = "pending"
                      /\ new.delivery_status = "delivered"
                      /\ old.delivered_at = Null
                      /\ new.delivered_at = At(now)
             /\ new.acked_at # old.acked_at
                   => /\ old.delivery_status # "acked"
                      /\ new.delivery_status = "acked"
                      /\ old.acked_at = Null
                      /\ new.acked_at = At(now)
             /\ new.delivery_status # old.delivery_status
                   => \/ new.delivery_status = "delivered" /\ new.delivered_at = At(now)
                      \/ new.delivery_status = "acked" /\ new.acked_at = At(now)]_vars

\* C9, the case reached: a row that went pending -> delivered -> acked at
\* different times, whose event two streams have written.
C9_DeliveredThenAcked ==
    \E l \in DOMAIN webhook_logs :
        /\ webhook_logs[l].delivery_status = "acked"
        /\ webhook_logs[l].delivered_at = At(0)
        /\ webhook_logs[l].acked_at = At(WebhookTTL + 1)
        /\ \A s \in 1..MaxStreams :
              /\ s \in DOMAIN streams
              /\ \E i \in DOMAIN streams[s].frames :
                    streams[s].frames[i].EventID = webhook_logs[l].event_id

\* C10: an event is processed exactly when its processed_at is set, and a
\* processed event never becomes unprocessed.
C10_ProcessedIffTimestamp ==
    /\ [](\A e \in DOMAIN events : events[e].processed <=> events[e].processed_at # Null)
    /\ [][\A e \in DOMAIN events \cap DOMAIN events' :
             events[e].processed => events'[e].processed]_vars

\* C10, the case reached: an event marked processed after the clock advanced,
\* next to an unprocessed one.
C10_ProcessedAndUnprocessed ==
    \E e1, e2 \in DOMAIN events :
        /\ events[e1].processed
        /\ events[e1].processed_at = At(WebhookTTL + 1)
        /\ ~events[e2].processed
        /\ events[e2].processed_at = Null

\* C11: at most one push stream is in steady state for a client key: a stream
\* whose registry entry was replaced by a later stream on its key has ended.
C11_OneLiveStreamPerKey ==
    \A s1, s2 \in DOMAIN streams :
        (/\ s1 # s2
         /\ streams[s1].key = streams[s2].key
         /\ streams[s1].pc = "steady")
        => streams[s2].pc # "steady"

\* C11, the case reached: the second stream on a key has replaced the first
\* in the registry, and the first is still in its steady-state loop.
C11_DisplacedStillRuns ==
    \E s1, s2 \in DOMAIN streams :
        /\ s1 < s2
        /\ streams[s1].key = streams[s2].key
        /\ clients[streams[s2].key] = s2
        /\ streams[s1].pc = "steady"
        /\ streams[s2].pc = "steady"

\* C12: a channel never holds more than ChanCap records. A broadcast to a
\* registered channel with room queues the record; to a full channel it
\* leaves the channel as it is, and the request is answered ok all the same;
\* the event is in every pull of the paired client key after the step. The
\* backlog query of a push connection opened later returns every admitted
\* event of the paired webhook key that is still unprocessed.
C12_OverflowDropsRecordOnly ==
    /\ [](\A s \in DOMAIN streams : Len(streams[s].chan) <= ChanCap)
    /\ [][\A r \in webhookReqs : \A k \in ClientKeys :
            (clients[k] # 0 /\ HandleWebhook_Broadcast(r))
            => LET s == clients[k]
                   ev == SSEEvent(r.event_id, r.wk)
               IN /\ streams'[s].chan = IF Len(streams[s].chan) < ChanCap
                                        THEN Append(streams[s].chan, ev)
                                        ELSE streams[s].chan
                  /\ [event_id |-> r.event_id, wk |-> r.wk] \in okEvents'
                  /\ r \notin webhookReqs'
                  /\ pair_id[k] = r.wk
                        => \A q \in GetUnprocessedEvents(events', pair_id[k]) :
                              r.event_id \in Range(q)]_vars
    /\ [][\A k \in ClientKeys :
            handleSSEStream(k)
            => \A r \in okEvents :
                  (/\ r.wk = pair_id[k]
                   /\ r.event_id \in DOMAIN events
                   /\ ~events[r.event_id].processed)
                  => r.event_id \in Range(streams'[nextStream].seed)]_vars

\* C12, the case reached: the registered channel holds the records of the
\* first ChanCap events, the event after them has been answered ok and is
\* not in the channel, and every pull of the client key returns it.
C12_EleventhDropped ==
    \E k \in ClientKeys :
        /\ clients[k] # 0
        /\ streams[clients[k]].frames = <<>>
        /\ Len(streams[clients[k]].chan) = ChanCap
        /\ \A i \in 1..ChanCap : streams[clients[k]].chan[i].EventID = i
        /\ [event_id |-> ChanCap + 1, wk |-> pair_id[k]] \in okEvents
        /\ \A q \in PollResponses(k) : ChanCap + 1 \in Range(q)

\* C13: the broadcast step of an ingest request can always be taken: it
\* waits for no channel, whatever the channels hold and whichever streams
\* are registered.
C13_BroadcastNeverWaits ==
    \A r \in webhookReqs : r.pc = "broadcast" => ENABLED HandleWebhook_Broadcast(r)

\* C13, the case reached: a request is about to broadcast while the
\* registered channel is full and its reader has read nothing.
C13_BroadcastOnFullChannel ==
    \E r \in webhookReqs : \E k \in ClientKeys :
        /\ r.pc = "broadcast"
        /\ clients[k] # 0
        /\ Len(streams[clients[k]].chan) = ChanCap
        /\ streams[clients[k]].frames = <<>>
        /\ ENABLED HandleWebhook_Broadcast(r)

\* C14: a pull on a client key is answered with exactly the events of the
\* paired webhook key that are unprocessed, each once, created_at ascending.
C14_PullExactlyUnprocessed ==
    \A k \in ClientKeys :
        /\ PollResponses(k) # {}
        /\ \A q \in PollResponses(k) :
              /\ Range(q) = {e \in DOMAIN events :
                               /\ events[e].webhook_key_id = pair_id[k]
                               /\ ~events[e].processed}
              /\ \A i, j \in DOMAIN q :
                    i < j => /\ q[i] # q[j]
                             /\ events[q[i]].created_at <= events[q[j]].created_at

\* C14, the case reached: two unprocessed events of one webhook key created
\* at different times are pulled by the paired client key in that order, and
\* the pull of the other client key is empty.
C14_PullOfTwoInOrder ==
    \E k1, k2 \in ClientKeys :
        /\ k1 # k2
        /\ PollResponses(k2) = {<<>>}
        /\ \E q \in PollResponses(k1) :
              /\ Len(q) = 2
              /\ events[q[1]].created_at < events[q[2]].created_at

\* The event ids of the frames i..j of stream s.
FrameIds(s, i, j) == [n \in 1..(j - i + 1) |-> streams[s].frames[i + n - 1].EventID]

\* C15: the event frames a push stream has written before its first
\* heartbeat are the result of its backlog query, the events pending at
\* connect time, each once, created_at ascending.
C15_SeedBeforeFirstHeartbeat ==
    \A s \in DOMAIN streams :
        streams[s].beat # -1 => FrameIds(s, 1, streams[s].beat) = streams[s].seed

\* C15, the case reached: the first heartbeat comes after two frames of the
\* one event the backlog query returned.
C15_SeededEventTwice ==
    \E s \in DOMAIN streams :
        /\ streams[s].beat = 2
        /\ Len(streams[s].seed) = 1
        /\ FrameIds(s, 1, 2) = streams[s].seed \o streams[s].seed

\* C16: once a paired ACK for an event has been answered with the event
\* marked processed, no pull of that client key returns the event and no
\* push stream opened on that key writes a frame of it.
C16_NothingAfterAck ==
    [][/\ \A e \in DOMAIN events : \A k \in Subscribers(e) :
            events[e].processed => \A q \in PollResponses(k) : e \notin Range(q)
       /\ \A s \in DOMAIN streams :
            Len(streams'[s].frames) > Len(streams[s].frames)
            => LET e == streams'[s].frames[Len(streams'[s].frames)].EventID
               IN ~(/\ e \in DOMAIN events
                    /\ streams[s].key \in Subscribers(e)
                    /\ events[e].processed
                    /\ \A r \in ackReqs : r.event_id # e)]_vars

\* C16, the case reached: the event's log row went from pending to acked
\* (no frame had been written), the ACK has been answered, and a stream of
\* the paired client key has written the event's frame since.
C16_FrameAfterAck ==
    \E e \in DOMAIN events : \E l \in LogsOf(webhook_logs, e) : \E s \in DOMAIN streams :
        /\ events[e].processed
        /\ ackReqs = {}
        /\ webhook_logs[l].delivery_status = "acked"
        /\ webhook_logs[l].delivered_at = Null
        /\ streams[s].key \in Subscribers(e)
        /\ \E i \in DOMAIN streams[s].frames : streams[s].frames[i].EventID = e

\* C17: the frames a push stream writes in steady state (those after its
\* backlog) carry the events of the paired webhook key in store order: an
\* earlier frame's event was not created after a later frame's. (No channel
\* overflows when at most StoreEvents records are broadcast.)
C17_SteadyFramesInStoreOrder ==
    \A s \in DOMAIN streams :
        \A i, j \in DOMAIN streams[s].frames :
            (/\ Len(streams[s].seed) < i
             /\ i < j
             /\ streams[s].frames[i].EventID \in DOMAIN events
             /\ streams[s].frames[j].EventID \in DOMAIN events
             /\ streams[s].frames[i].WebhookKeyID = pair_id[streams[s].key]
             /\ streams[s].frames[j].WebhookKeyID = pair_id[streams[s].key])
            => events[streams[s].frames[i].EventID].created_at
                  <= events[streams[s].frames[j].EventID].created_at

\* C17, the case reached: a stream with an empty backlog has written the
\* frame of the second event before the frame of the first, which was
\* created an hour earlier; a pull returns the first event first.
C17_LaterEventFirst ==
    \E s \in DOMAIN streams :
        /\ streams[s].seed = <<>>
        /\ Len(streams[s].frames) = 2
        /\ FrameIds(s, 1, 2) = <<2, 1>>
        /\ {1, 2} \subseteq DOMAIN events
        /\ events[1].created_at < events[2].created_at
        /\ PollResponses(streams[s].key) = {<<1, 2>>}

\* C18: the route answers an ingest request with the status of the first
\* failing check in the order key (401), rate limit (429), path (400), body
\* size (413), and a request answered with one of them creates no event, no
\* log row and no broadcast.
C18_ChecksInOrder ==
    /\ [](\A i \in RateInputs :
            RouteStatus(i.key, i.path, i.bodyLen) =
                IF i.key \notin WebhookKeys THEN 401
                ELSE IF advance(limiters[i.key], limiterClock) < 1 THEN 429
                ELSE IF i.path.len = 0 \/ i.path.len > maxPathLength \/ i.path.dotdot
                     THEN 400
                ELSE IF i.bodyLen > maxBodySize THEN 413
                ELSE 0)
    /\ [][\A i \in RateInputs :
            (/\ RouteStatus(i.key, i.path, i.bodyLen) # 0
             /\ WebhookRoute(i.key, i.path, i.bodyLen, TRUE))
            => /\ events' = events
               /\ nextEventId' = nextEventId
               /\ webhook_logs' = webhook_logs
               /\ webhookReqs' = webhookReqs
               /\ streams' = streams
               /\ okEvents' = okEvents]_vars

\* C18, the case reached: Burst requests with a bad path have emptied the
\* bucket of wh_A and created nothing; a request that fails every check of
\* the handler is now answered 429, and 401 under an unknown key.
C18_RejectedByLimiterFirst ==
    /\ passed["wh_A"] = Burst
    /\ advance(limiters["wh_A"], limiterClock) = 0
    /\ events = <<>>
    /\ webhook_logs = <<>>
    /\ RouteStatus("wh_A", Path(0, FALSE), maxBodySize + 1) = 429
    /\ RouteStatus("unknown", Path(0, FALSE), maxBodySize + 1) = 401

C20_ExpiresAtRetention ==
    \A e \in DOMAIN events :
        (\/ \E r \in webhookReqs : r.event_id = e /\ r.kind = "webhook"
         \/ LogsOf(webhook_logs, e) # {})
        => events[e].expires_at = events[e].created_at + EventTTL

\* C20, the case reached: the ingest endpoint has answered ok for an event
\* that expires a year after it was created.
C20_IngestEventKeptAYear ==
    \E r \in okEvents :
        /\ r.event_id \in DOMAIN events
        /\ LogsOf(webhook_logs, r.event_id) # {}
        /\ events[r.event_id].expires_at = events[r.event_id].created_at + WebhookTTL
        /\ events[r.event_id].expires_at > events[r.event_id].created_at + EventTTL

\* C21: a reaper sweep at time now deletes every event with expires_at < now
\* and no other, processed or not; the log rows of the deleted events go
\* with them; every other event row and log row is left as it was.
C21_SweepDeletesExactlyExpired ==
    [][cleanup
       => LET gone == {e \in DOMAIN events : events[e].expires_at < now}
          IN /\ DOMAIN events' = DOMAIN events \ gone
             /\ \A e \in DOMAIN events' : events'[e] = events[e]
             /\ DOMAIN webhook_logs' =
                   {l \in DOMAIN webhook_logs : webhook_logs[l].event_id \notin gone}
             /\ \A l \in DOMAIN webhook_logs' : webhook_logs'[l] = webhook_logs[l]]_vars

\* C21, the case reached: a sweep has deleted the first event, which was
\* answered ok, and its log row; the second event, processed, expires at
\* this very hour and is in the store with its acked log row.
C21_SweptAtExpiryKept ==
    /\ \E r \in okEvents : r.event_id = 1
    /\ 1 \notin DOMAIN events
    /\ LogsOf(webhook_logs, 1) = {}
    /\ 2 \in DOMAIN events
    /\ events[2].expires_at = now
    /\ events[2].processed
    /\ \E l \in LogsOf(webhook_logs, 2) : webhook_logs[l].delivery_status = "acked"

\* C22: after the shutdown signal main returns; by then the ingest requests
\* in flight have been answered, every push stream's task has returned
\* (through the cancellation of its context), and the reaper and the
\* limiters' sweep have stopped.
C22_ShutdownStopsEveryTask ==
    /\ (mainPc = "stop") ~> (mainPc = "exited")
    /\ [](mainPc = "exited"
            => /\ webhookReqs = {}
               /\ \A s \in DOMAIN streams : streams[s].pc = "done"
               /\ reaper # "loop"
               /\ sweeper # "loop")

\* C22, the case reached: main has returned after Shutdown's 30 s while a
\* push stream was in its steady-state loop, its channel registered, and
\* the limiters' sweep was running.
C22_ExitedWithOpenStream ==
    /\ mainPc = "exited"
    /\ sweeper = "loop"
    /\ \E s \in DOMAIN streams : streams[s].pc = "steady" /\ clients[streams[s].key] = s

\* C23: a push stream is not subject to the server's write timeout: no write
\* of a stream fails while its subscriber is connected, and its task does
\* not return before the subscriber disconnects or the process shuts down.
C23_StreamOutlivesWriteTimeout ==
    \A s \in DOMAIN streams : ~streams[s].werr /\ streams[s].pc # "done"

\* C23, the case reached: past the deadline an event was taken from the
\* channel, its log row says delivered, its frame was not written, and the
\* task has returned with the subscriber still connected.
C23_StreamEndedByTimeout ==
    \E s \in DOMAIN streams : \E l \in DOMAIN webhook_logs :
        /\ streams[s].pc = "done"
        /\ streams[s].late
        /\ streams[s].werr
        /\ streams[s].frames = <<>>
        /\ webhook_logs[l].delivery_status = "delivered"
        /\ webhook_logs[l].client_key_id = streams[s].key

\* The keys a route turns away: unknown, inactive, or of the other role.
Rejected(endpoint, k) ==
    \/ k \notin DOMAIN api_keys
    \/ ~api_keys[k].is_active
    \/ api_keys[k].key_type # EndpointRole(endpoint)

\* C24: on every key-authorised route a request with an unknown key, an
\* inactive key or an active key of the other role is answered 401, and the
\* answers to any two such requests are the same, status and body.
C24_RejectionsIdentical ==
    \A ep \in Endpoints : \A k1, k2 \in KeyProbes :
        Rejected(ep, k1)
        => /\ KeyResponse(api_keys, k1, EndpointRole(ep)).status = 401
           /\ Rejected(ep, k2)
                 => KeyResponse(api_keys, k1, EndpointRole(ep)) =
                    KeyResponse(api_keys, k2, EndpointRole(ep))

\* C24, the case reached: a revoked webhook key and an unknown key are both
\* answered 401 on the ingest route, with different bodies; the key of the
\* other role is answered as the unknown key is.
C24_InactiveToldApart ==
    \E k \in WebhookKeyValues : \E c \in ClientKeyValues :
        /\ k \in DOMAIN api_keys
        /\ c \in DOMAIN api_keys
        /\ ~api_keys[k].is_active
        /\ api_keys[c].is_active
        /\ KeyResponse(api_keys, k, "webhook").status = 401
        /\ KeyResponse(api_keys, "unknown", "webhook").status = 401
        /\ KeyResponse(api_keys, k, "webhook").body
              # KeyResponse(api_keys, "unknown", "webhook").body
        /\ KeyResponse(api_keys, c, "webhook") = KeyResponse(api_keys, "unknown", "webhook")

\* C25: a revoke of pair p by owner o sets is_active = false on both keys of
\* p in one step when o owns p, and leaves every other key as it was; when
\* p belongs to another owner, or does not exist, no key changes.
C25_RevokeBothOrNothing ==
    [][\A p \in WebhookKeyValues : \A o \in Owners :
          HandleRevokeKeys(p, o)
          => IF \E k \in DOMAIN api_keys :
                    api_keys[k].pair_id = p /\ api_keys[k].user_email = o
             THEN /\ DOMAIN api_keys' = DOMAIN api_keys
                  /\ \A k \in DOMAIN api_keys :
                        IF api_keys[k].pair_id = p
                        THEN api_keys'[k] = [api_keys[k] EXCEPT !.is_active = FALSE]
                        ELSE api_keys'[k] = api_keys[k]
             ELSE api_keys' = api_keys]_vars

\* C25, the case reached: both keys of the first pair are inactive, the
\* second pair of the same owner and the other owner's pair are active.
C25_PairRevokedOthersActive ==
    /\ {"wh_A", "ck_A", "wh_B", "ck_B", NewWebhookKey, NewClientKey} \subseteq DOMAIN api_keys
    /\ api_keys[NewWebhookKey].user_email = api_keys["wh_A"].user_email
    /\ ~api_keys["wh_A"].is_active
    /\ ~api_keys["ck_A"].is_active
    /\ \A k \in {"wh_B", "ck_B", NewWebhookKey, NewClientKey} : api_keys[k].is_active

\* C26: a key whose is_active is false does not become active again.
C26_DeactivationIsFinal ==
    [][\A k \in DOMAIN api_keys \cap DOMAIN api_keys' :
          ~api_keys[k].is_active => ~api_keys'[k].is_active]_vars

\* C27: no step deletes a key while an event of the store refers to the
\* webhook key of its pair.
C27_NoDeleteWhileReferenced ==
    [][\A k \in DOMAIN api_keys \ DOMAIN api_keys' :
          \A e \in DOMAIN events : events[e].webhook_key_id # api_keys[k].pair_id]_vars

\* C27, the case reached: the ingest route has answered ok for an event of
\* a webhook key; the key's pair has been deleted and the event and its log
\* row with it.
C27_PairDeletedWithEvents ==
    \E r \in okEvents :
        /\ r.wk \notin DOMAIN api_keys
        /\ r.event_id \notin DOMAIN events
        /\ LogsOf(webhook_logs, r.event_id) = {}
        /\ nextEventId > r.event_id

\* C28: an ingest request whose insert succeeded is answered {status: ok,
\* event_id} whatever becomes of the log row, the usage statistics, the
\* analytics message and the broadcast: each of its steps can be taken
\* with every outcome, the step of the side effects leads to the broadcast,
\* and the broadcast to the answer.
C28_OkWhateverSideEffects ==
    /\ [](\A r \in webhookReqs :
            /\ r.pc = "log"
                  => \A logged, counted, queued \in BOOLEAN :
                        ENABLED HandleWebhook_SideEffects(r, logged, counted, queued)
            /\ r.pc = "broadcast" => ENABLED HandleWebhook_Broadcast(r))
    /\ [][\A r \in webhookReqs \ webhookReqs' :
            \/ /\ r.pc = "log"
               /\ [r EXCEPT !.pc = "broadcast"] \in webhookReqs'
            \/ /\ r.pc = "broadcast"
               /\ [event_id |-> r.event_id, wk |-> r.wk] \in okEvents']_vars

\* C28, the case reached: an event answered ok that has no log row, is
\* not counted, has no analytics message and has no subscriber; and one
\* answered ok that has all of them.
C28_OkWithNothingDone ==
    \E r1, r2 \in okEvents :
        /\ {r1.event_id, r2.event_id} \subseteq DOMAIN events
        /\ r1.wk = "wh_B"
        /\ LogsOf(webhook_logs, r1.event_id) = {}
        /\ usage_count[r1.wk] = 0
        /\ r1.event_id \notin tracked
        /\ r2.wk = "wh_A"
        /\ LogsOf(webhook_logs, r2.event_id) # {}
        /\ usage_count[r2.wk] = 1
        /\ r2.event_id \in tracked
        /\ clients["ck_A"] # 0
        /\ \E i \in DOMAIN streams[clients["ck_A"]].chan :
              streams[clients["ck_A"]].chan[i].EventID = r2.event_id

\* C29: a magic-link token authenticates at most one verification: of the
\* verifications of one token, sequential or concurrent, at most one
\* returns the email, and none passes its checks after the token's expiry.
C29_TokenVerifiedOnce ==
    /\ \A t \in 1..MaxTokens : granted[t] <= 1
    /\ \A r \in verifyReqs : r.checked_at <= r.expires_at

\* C29, the case reached: two verifications of one token have both returned
\* the email, the token being marked used.
C29_TokenVerifiedTwice ==
    \E o \in Owners :
        /\ magic_links[o].token # 0
        /\ magic_links[o].used
        /\ granted[magic_links[o].token] = 2
        /\ verifyReqs = {}

\* The responses after which the claim has acknowledgeEvent retry: a
\* network error or a 5xx status.
Retried(resp) == resp.rejected \/ (resp.status >= 500 /\ resp.status <= 599)

\* The responses at which the claim has acknowledgeEvent return true.
Acknowledged(resp) ==
    ~resp.rejected /\ (resp.status = 409 \/ (resp.status >= 200 /\ resp.status <= 299))

\* C30: acknowledgeEvent sends at most maxRetries + 1 requests; every
\* request but the last was answered by a network error or a 5xx status;
\* before retry k + 1 it has slept retryDelayMs * 2^k; it returns true at
\* the first 2xx or 409 answer, false at once on another answer below 500,
\* and false when the request after the last retry fails too; until it
\* returns it can go on.
C30_BoundedRetries ==
    LET n == Len(ackCall.history)
        retries == IF ackCall.pc = "send" THEN n ELSE IF n = 0 THEN 0 ELSE n - 1
    IN /\ n <= maxRetries + 1
       /\ \A i \in 1..(n - 1) : Retried(ackCall.history[i])
       /\ Len(ackCall.slept) = retries
       /\ \A k \in 0..(retries - 1) : ackCall.slept[k + 1] = retryDelayMs * 2^k
       /\ ackCall.pc = "send" => n <= maxRetries
       /\ ackCall.pc = "sleep" => Retried(ackCall.history[n])
       /\ ackCall.pc = "thrown" => n = 0
       /\ ackCall.pc = "done"
            => /\ n >= 1
               /\ ackCall.result <=> Acknowledged(ackCall.history[n])
               /\ Retried(ackCall.history[n]) => n = maxRetries + 1
       /\ ackCall.pc \in {"send", "sleep"} => ENABLED AckNext

\* C30, the case reached: three retries after the waits of 1000, 2000 and
\* 4000 ms, the fourth request failing too, and false returned.
C30_RetriesExhausted ==
    /\ ackCall.pc = "done"
    /\ ~ackCall.result
    /\ Len(ackCall.history) = maxRetries + 1
    /\ ackCall.history[1].rejected
    /\ ackCall.history[maxRetries + 1].status = 503
    /\ ackCall.slept = <<1000, 2000, 4000>>

\* C31: the reconnect scheduled after the n-th consecutive connection error
\* waits 1 s doubled n - 1 times and at most 60 s, no reconnect is
\* scheduled after 10 consecutive failed attempts, and an opened
\* connection has the attempt counter at zero.
C31_BackoffOneToSixtyTenAttempts ==
    /\ sseClient.reconnectTimer
          => /\ sseClient.delay = Min(1000 * 2^(sseClient.reconnectAttempts - 1), 60000)
             /\ sseClient.reconnectAttempts <= 10
    /\ sseClient.eventSource = "open" => sseClient.reconnectAttempts = 0

\* C31, the case reached: an eleventh consecutive reconnect is pending,
\* with the delay of 30 s that every attempt from the fifth on has.
C31_EleventhReconnectAfterThirty ==
    /\ sseClient.reconnectTimer
    /\ sseClient.pendingTimers = 1
    /\ sseClient.reconnectAttempts = 11
    /\ sseClient.delay = 30000

\* C32: under every order of connect(), disconnect(), onopen, onerror and
\* the timer, at most one EventSource is not closed, and it is the one the
\* handler holds; at most one reconnect timer is pending, and it is the one
\* the handler holds; after disconnect() and until the next connect() there
\* is neither, so that no event of an EventSource and no timer can occur.
C32_OneSourceOneTimer ==
    /\ Cardinality(sseClient.liveSources) <= 1
    /\ sseClient.liveSources
          = (IF sseClient.eventSource = "null" THEN {} ELSE {sseClient.source})
    /\ sseClient.pendingTimers <= 1
    /\ sseClient.pendingTimers = (IF sseClient.reconnectTimer THEN 1 ELSE 0)
    /\ sseClient.isManualDisconnect
          => /\ sseClient.liveSources = {}
             /\ sseClient.pendingTimers = 0
             /\ ~ENABLED SSEHandler_onopen
             /\ ~ENABLED SSEHandler_onerror
             /\ \A created \in BOOLEAN : ~ENABLED SSEHandler_reconnectTimer(created)

\* C32, the case reached: disconnect() after a connection was lost and its
\* reconnect was pending or had been made: nothing is held.
C32_DisconnectedAfterReconnect ==
    /\ sseClient.isManualDisconnect
    /\ sseClient.delay > 0
    /\ sseClient.nextSource > 2
    /\ sseClient.liveSources = {}
    /\ sseClient.pendingTimers = 0
    /\ sseClient.state = "disconnected"

\* C33: under every sequence of start() and stop() at most one interval
\* timer is active, and it is active exactly while polling; start() while
\* polling changes nothing; stop() can be called in every state; and a poll
\* request is issued only by a step that leaves the handler polling, so by
\* none between a stop() and the next start().
C33_OnePollingTimer ==
    /\ [](/\ Len(poller.intervals) <= 1
          /\ Len(poller.intervals) = (IF poller.polling THEN 1 ELSE 0)
          /\ poller.pollingTimer = poller.polling
          /\ poller.polling
                => \A intervalMs \in IntervalArgs : start(poller, intervalMs) = poller
          /\ ENABLED PollingHandler_stop
          /\ ~poller.polling => ~ENABLED PollingHandler_interval)
    /\ [][poller'.requests > poller.requests => poller'.polling]_vars

\* C33, the case reached: polling was started, stopped and started again
\* with another period; the first start's request is still unanswered and
\* the interval has fired.
C33_RestartedPolling ==
    /\ poller.polling
    /\ poller.intervals = <<1000>>
    /\ poller.requests >= 4
    /\ poller.inFlight >= 2

\* C34: under the configured key Decrypt(Encrypt(b)) = b for every byte
\* string b, the empty one too, whatever the nonce; so an event ingested
\* with a key configured is stored as nonce, ciphertext and tag, and pull
\* and getById return its payload as it was ingested.
C34_DecryptInvertsEncrypt ==
    /\ crypt.encrypted
          => /\ Len(crypt.data) = NonceSize + Len(crypt.payload) + Overhead
             /\ Decrypt(crypt.data) = crypt.payload
    /\ crypt.encrypted /\ crypt.pc = "read" => crypt.out = crypt.payload

\* C34, the case reached: the empty payload, stored as a nonce and a tag,
\* has been returned empty by getById.
C34_EmptyPayloadRead ==
    /\ crypt.pc = "read"
    /\ crypt.encrypted
    /\ crypt.via = "getById"
    /\ crypt.payload = <<>>
    /\ Len(crypt.data) = NonceSize + Overhead
    /\ crypt.data # crypt.payload
    /\ crypt.out = <<>>

\* The streams opened with the client key of stream s.
StreamsOfKey(s) == {t \in DOMAIN streams : streams[t].key = streams[s].key}

\* The events that are in a sequence of SSEEvent records.
EventsIn(q) == {q[i].EventID : i \in DOMAIN q}

\* C35: no event is missed by a connecting push stream: once a stream (the
\* only one of its key) is in steady state, every event of its producer
\* that its backlog query did not return and whose ingest request has been
\* answered is written on the stream or waits in its channel.
C35_NoEventMissed ==
    \A s \in DOMAIN streams : \A r \in okEvents :
        (/\ streams[s].pc = "steady"
         /\ StreamsOfKey(s) = {s}
         /\ clients[streams[s].key] = s
         /\ r.wk = pair_id[streams[s].key]
         /\ \A i \in DOMAIN streams[s].seed : streams[s].seed[i] # r.event_id)
        => r.event_id \in EventsIn(streams[s].frames) \cup EventsIn(streams[s].chan)

\* C35, the case reached: an event of the producer was inserted and
\* broadcast after the backlog query of the only stream of ck_A and before
\* the stream's channel was registered: the stream is in steady state with
\* an empty channel and has not written the event, which is unprocessed.
C35_MissedBetweenQueryAndRegistration ==
    \E s \in DOMAIN streams : \E r \in okEvents :
        /\ streams[s].key = "ck_A"
        /\ streams[s].pc = "steady"
        /\ StreamsOfKey(s) = {s}
        /\ clients["ck_A"] = s
        /\ r.wk = "wh_A"
        /\ r.event_id \in DOMAIN events
        /\ ~events[r.event_id].processed
        /\ streams[s].seed = <<>>
        /\ streams[s].frames = <<>>
        /\ streams[s].chan = <<>>
        /\ webhookReqs = {}

\* C36: while a push stream is in steady state and no other stream of its
\* key is, the registry maps the key to that stream; and the termination
\* of a stream leaves every registration that is not its own as it is.
C36_LaterRegistrationKept ==
    /\ [](\A s \in DOMAIN streams :
            (/\ streams[s].pc = "steady"
             /\ \A t \in StreamsOfKey(s) \ {s} : streams[t].pc # "steady")
            => clients[streams[s].key] = s)
    /\ [][\A t \in DOMAIN streams :
            (streams[t].pc = "steady" /\ streams'[t].pc = "done")
            => \A k \in ClientKeys : clients[k] # t => clients'[k] = clients[k]]_vars

\* C36, the case reached: the first stream of ck_A has ended after the
\* second registered its channel: the second is in steady state and the
\* registry holds nothing for ck_A.
C36_LaterStreamUnregistered ==
    /\ DOMAIN streams = {1, 2}
    /\ streams[1].key = "ck_A" /\ streams[2].key = "ck_A"
    /\ streams[1].pc = "done"
    /\ streams[2].pc = "steady"
    /\ clients["ck_A"] = 0

\* C37: CleanupService.Stop always returns: with auto-cleanup enabled or
\* disabled, once main has received the signal and called Stop it goes on
\* to the shutdown of the HTTP server.
C37_StopReturns == (mainPc = "stop") ~> (mainPc = "shutdown")

\* C37, the case reached: main is in Stop and no goroutine of the reaper
\* exists to receive from done: the send cannot go on.
C37_StopWithoutReceiver ==
    /\ mainPc = "stop"
    /\ reaper = "none"
    /\ ~ENABLED CleanupService_Stop
    /\ webhookReqs = {}
    /\ DOMAIN streams = {}

\* C38: after a subscriber key has been deactivated no event frame is
\* written to a push stream authorised by it: every step that writes a
\* frame on a stream finds the stream's key active.
C38_NoFrameForInactiveKey ==
    [][\A s \in DOMAIN streams :
          streams'[s].frames # streams[s].frames
          => /\ streams[s].key \in DOMAIN api_keys
             /\ api_keys[streams[s].key].is_active]_vars

\* C38, the case reached: ck_A is inactive, a new connection with it is
\* refused, and its stream opened earlier is registered and holds an event
\* in its channel that it is about to write.
C38_InactiveKeyStreamFed ==
    /\ ~api_keys["ck_A"].is_active
    /\ ~ENABLED SSERoute("ck_A")
    /\ clients["ck_A"] # 0
    /\ streams[clients["ck_A"]].pc = "steady"
    /\ streams[clients["ck_A"]].chan # <<>>
    /\ ENABLED SSE_Receive(clients["ck_A"])

\* C39: a delivery-log entry that records a subscriber identity records the
\* subscriber paired with the entry's producer; a push stream of another
\* subscriber never advances the entry to delivered nor writes its own
\* identity into it.
C39_LogNamesPairedSubscriber ==
    \A l \in DOMAIN webhook_logs :
        webhook_logs[l].client_key_id # ""
        => pair_id[webhook_logs[l].client_key_id] = webhook_logs[l].webhook_key_id

\* C39, the case reached: the entry of an event of producer wh_A is
\* delivered in the name of ck_B, the subscriber of the other pair, whose
\* stream took the event from its channel, while no stream of ck_A has
\* written the event.
C39_DeliveredByOtherSubscriber ==
    \E l \in DOMAIN webhook_logs : \E s \in DOMAIN streams :
        /\ webhook_logs[l].webhook_key_id = "wh_A"
        /\ webhook_logs[l].delivery_status = "delivered"
        /\ webhook_logs[l].client_key_id = "ck_B"
        /\ streams[s].key = "ck_B"
        /\ \E i \in DOMAIN streams[s].frames :
              streams[s].frames[i].EventID = webhook_logs[l].event_id
        /\ \A t \in DOMAIN streams : streams[t].key = "ck_A" =>
              \A i \in DOMAIN streams[t].frames :
                  streams[t].frames[i].EventID # webhook_logs[l].event_id

\* C40: for every producer key and every window of length T the requests
\* the limiter lets pass in the window are at most Burst + T * (100 a
\* minute), T counted in token periods here, whatever the traffic on other
\* keys and however the key's requests interleave with the sweep.
C40_WindowWithinBurstPlusRate ==
    \A key \in WebhookKeys :
        \A i, j \in DOMAIN keyRateLimiter.allowed[key] :
            i <= j => (j - i) + 1 <= Burst + (keyRateLimiter.allowed[key][j]
                                               - keyRateLimiter.allowed[key][i])

\* C40, the case reached: the sweep has run, and Burst + 1 requests on wh_A
\* have been let pass at one instant, the bucket now in the map being empty.
C40_BurstPlusOneAtOnce ==
    LET a == keyRateLimiter.allowed["wh_A"] IN
    /\ sweeper = "loop"
    /\ limiterClock >= staleAfter + cleanupInterval
    /\ Len(a) > Burst
    /\ a[Len(a) - Burst] = limiterClock
    /\ keyRateLimiter.limiters["wh_A"] # 0
    /\ advance(keyRateLimiter.entries[keyRateLimiter.limiters["wh_A"]].limiter,
               limiterClock) = 0

====
